---- MODULE Spec2Model ----
(***************************************************************************)
(* A model of the command library's flag engine and executor.              *)
(*                                                                         *)
(* Strings of the program are sequences of one-character strings, so that  *)
(* prefix tests, splitting at '=' and case conversion are computed the way *)
(* the code computes them.  A Go pointer that may be nil is a sequence of    *)
(* length 0 (nil) or 1 (set).                                              *)
(***************************************************************************)
EXTENDS Integers, Sequences, FiniteSets, TLC

VARIABLES
    pc,           \* position of the running operation
    given,        \* the command handed to ExecuteWithContext / apply
    args,         \* the argument list handed in
    envVars,      \* the environment map handed in
    width,        \* what getTerminalWidth() returns
    fields,       \* the bound configuration fields (field id -> value)
    posTargets,   \* the positional-argument targets (target id -> option of list)
    cmd,          \* the command resolved by the argument splitter
    applyErr,     \* the error returned by flagSet.apply
    exitCode,     \* ExecuteWithContext's named result
    actionError,  \* ExecuteWithContext's actionError local
    out,          \* what was written to the io.Writer
    calls,        \* the hook and action invocations so far, in order
    k,            \* number of hooks of the current loop already invoked
    callArgs,     \* the arguments of a function of the library called directly
    returned      \* what that function returned

vars == <<pc, given, args, envVars, width, fields, posTargets, cmd, applyErr,
          exitCode, actionError, out, calls, k, callArgs, returned>>

-----------------------------------------------------------------------------
(* Bounds *)

MaxArgs == 3
MaxExecArgs == 3

-----------------------------------------------------------------------------
(* Characters and strings *)

None == <<>>
Some(v) == <<v>>

Lowers == <<"a", "b", "c", "d", "e", "f", "g", "h", "i", "j", "k", "l", "m",
            "n", "o", "p", "q", "r", "s", "t", "u", "v", "w", "x", "y", "z">>

Uppers == <<"A", "B", "C", "D", "E", "F", "G", "H", "I", "J", "K", "L", "M",
            "N", "O", "P", "Q", "R", "S", "T", "U", "V", "W", "X", "Y", "Z">>

\* The characters of the model in byte order
CharOrder == <<"-", "0", "1", "2", "=">> \o Uppers \o <<"_">> \o Lowers

IndexIn(seq, c) == CHOOSE i \in DOMAIN seq : seq[i] = c

IsIn(seq, c) == \E i \in DOMAIN seq : seq[i] = c

IsUpper(c) == IsIn(Uppers, c)

IsLower(c) == IsIn(Lowers, c)

ToUpperChar(c) == IF IsLower(c) THEN Uppers[IndexIn(Lowers, c)] ELSE c

ToLowerChar(c) == IF IsUpper(c) THEN Lowers[IndexIn(Uppers, c)] ELSE c

ToUpper(s) == [i \in DOMAIN s |-> ToUpperChar(s[i])]

Ord(c) == IndexIn(CharOrder, c)

\* cmp.Compare on strings: -1, 0 or 1 by byte-wise lexicographic order
RECURSIVE StrCompare(_, _)
StrCompare(s, t) ==
    IF s = <<>> /\ t = <<>> THEN 0
    ELSE IF s = <<>> THEN -1
    ELSE IF t = <<>> THEN 1
    ELSE IF Ord(Head(s)) < Ord(Head(t)) THEN -1
    ELSE IF Ord(Head(s)) > Ord(Head(t)) THEN 1
    ELSE StrCompare(Tail(s), Tail(t))

HasPrefix(s, p) == Len(s) >= Len(p) /\ SubSeq(s, 1, Len(p)) = p

\* Variant: the dashes are kept
flagNameToEnvVarName_upperOnly(flagName) == [i \in DOMAIN flagName |-> ToUpperChar(flagName[i])]

\* strings.ReplaceAll(strings.ToUpper(flagName), "-", "_")
flagNameToEnvVarName(flagName) ==
    [i \in DOMAIN flagName |->
        IF ToUpperChar(flagName[i]) = "-" THEN "_" ELSE ToUpperChar(flagName[i])]

\* strconv.ParseBool: the accepted spellings
TrueLiterals ==
    { <<"1">>, <<"t">>, <<"T">>, <<"t", "r", "u", "e">>, <<"T", "R", "U", "E">>,
      <<"T", "r", "u", "e">> }

FalseLiterals ==
    { <<"0">>, <<"f">>, <<"F">>, <<"f", "a", "l", "s", "e">>,
      <<"F", "A", "L", "S", "E">>, <<"F", "a", "l", "s", "e">> }

ParseBoolOk(s) == s \in TrueLiterals \cup FalseLiterals

ParseBool(s) == s \in TrueLiterals

\* strconv.FormatBool
FormatBool(b) == IF b THEN <<"t", "r", "u", "e">> ELSE <<"f", "a", "l", "s", "e">>

-----------------------------------------------------------------------------
(* Field discovery: configuration structs and their tags *)

NoTags ==
    [flag |-> None, name |-> None, env |-> None, valueName |-> None, desc |-> None,
     required |-> None, inherited |-> None, args |-> None]

\* One struct field: its identity, Go name, kind, tags, initial value and,
\* for a struct-typed field, the fields of the nested struct
Field(id, fieldName, kind, tags, init) ==
    [id |-> id, fieldName |-> fieldName, kind |-> kind, tags |-> tags, init |-> init]

\* fieldNameToFlagName, from index i on (1-based) with the result so far
RECURSIVE fieldNameToFlagNameFrom(_, _, _)
fieldNameToFlagNameFrom(fieldName, i, result) ==
    IF i > Len(fieldName) THEN result
    ELSE
        LET r == fieldName[i] IN
        IF i = 1 THEN fieldNameToFlagNameFrom(fieldName, i + 1, <<ToLowerChar(r)>>)
        ELSE IF IsUpper(r) THEN
            fieldNameToFlagNameFrom(fieldName, i + 1,
                (IF IsLower(fieldName[i - 1]) THEN Append(result, "-") ELSE result)
                    \o <<ToLowerChar(r)>>)
        ELSE
            fieldNameToFlagNameFrom(fieldName, i + 1,
                Append(
                    IF i >= 3 /\ IsUpper(fieldName[i - 1]) /\ IsUpper(fieldName[i - 2])
                    THEN SubSeq(result, 1, Len(result) - 1) \o <<"-", result[Len(result)]>>
                    ELSE result,
                    r))

fieldNameToFlagName(fieldName) == fieldNameToFlagNameFrom(fieldName, 1, <<>>)

\* fieldNameToEnvVarName, from index i on (1-based) with the result so far
RECURSIVE fieldNameToEnvVarNameFrom(_, _, _)
fieldNameToEnvVarNameFrom(fieldName, i, result) ==
    IF i > Len(fieldName) THEN result
    ELSE
        LET r == fieldName[i] IN
        IF i = 1 THEN fieldNameToEnvVarNameFrom(fieldName, i + 1, <<ToUpperChar(r)>>)
        ELSE IF IsUpper(r) THEN
            fieldNameToEnvVarNameFrom(fieldName, i + 1,
                (IF IsLower(fieldName[i - 1]) THEN Append(result, "_") ELSE result)
                    \o <<ToUpperChar(r)>>)
        ELSE
            fieldNameToEnvVarNameFrom(fieldName, i + 1,
                Append(
                    IF i >= 3 /\ IsUpper(fieldName[i - 1]) /\ IsUpper(fieldName[i - 2])
                    THEN SubSeq(result, 1, Len(result) - 1) \o <<"_", result[Len(result)]>>
                    ELSE result,
                    ToUpperChar(r)))

\* strings.Join(elems, ",")
RECURSIVE JoinComma(_)
JoinComma(elems) ==
    IF elems = <<>> THEN <<>>
    ELSE IF Len(elems) = 1 THEN elems[1]
    ELSE elems[1] \o <<",">> \o JoinComma(Tail(elems))

\* The default-value string readFlagFromField takes from the field
DefaultValueOf(fld) ==
    CASE fld.kind = "bool" -> FormatBool(FALSE)
      [] fld.kind = "string" -> fld.init
      [] fld.kind = "strings" -> JoinComma(fld.init)

NoFlagSet == [flags |-> <<>>, positionalsTargets |-> <<>>, failed |-> FALSE]

FailedFlagSet == [flags |-> <<>>, positionalsTargets |-> <<>>, failed |-> TRUE]

\* Variant: a registry takes one positional-argument target and fails on a
\* second
addPositionalsTarget_single(fs, id) ==
    IF fs.positionalsTargets # <<>> THEN FailedFlagSet
    ELSE [fs EXCEPT !.positionalsTargets = Append(@, id)]

\* The args branch of readFlagFromField for a []string field
addPositionalsTarget(fs, id) == [fs EXCEPT !.positionalsTargets = Append(@, id)]

\* Variant: a redeclared name is appended as a descriptor of its own
registerFlag_appended(fs, fd) == [fs EXCEPT !.flags = Append(@, fd)]

\* The loop over fs.flags of readFlagFromField: the duplicate-name branch
\* merges fd into the registered descriptor or fails; a new name is appended
registerFlag(fs, fd) ==
    IF \E n \in DOMAIN fs.flags : fs.flags[n].Name = fd.Name THEN
        LET n == CHOOSE m \in DOMAIN fs.flags :
                    /\ fs.flags[m].Name = fd.Name
                    /\ \A l \in 1..(m - 1) : fs.flags[l].Name # fd.Name
            fdi == fs.flags[n]
        IN
        IF \/ (fdi.EnvVarName # None /\ fd.EnvVarName # None /\ fdi.EnvVarName # fd.EnvVarName)
           \/ fdi.HasValue # fd.HasValue
           \/ (fdi.ValueName # None /\ fd.ValueName # None /\ fdi.ValueName # fd.ValueName)
           \/ (fdi.Description # None /\ fd.Description # None /\ fdi.Description # fd.Description)
           \/ (fdi.Required # None /\ fd.Required # None /\ fdi.Required # fd.Required)
           \/ fdi.DefaultValue # fd.DefaultValue
           \/ fdi.Inherited # fd.Inherited
        THEN FailedFlagSet
        ELSE
            [fs EXCEPT !.flags[n] =
                [fdi EXCEPT
                    !.EnvVarName = IF fdi.EnvVarName = None THEN fd.EnvVarName ELSE @,
                    !.ValueName = IF fdi.ValueName = None THEN fd.ValueName ELSE @,
                    !.Description = IF fdi.Description = None THEN fd.Description ELSE @,
                    !.Required = IF fdi.Required = None THEN fd.Required ELSE @,
                    !.Targets = @ \o fd.Targets]]
    ELSE [fs EXCEPT !.flags = Append(@, fd)]

RECURSIVE readFlagsFromStruct(_, _, _)

readFlagFromField(fs, fld, defaultInherited) ==
    LET t == fld.tags
        bad(x) == x # None /\ ~ParseBoolOk(x[1])
        on(x) == x # None /\ ParseBool(x[1])
        flagTagged ==
            \/ on(t.flag) \/ t.name # None \/ t.env # None \/ t.valueName # None
            \/ t.desc # None \/ t.required # None \/ t.inherited # None
        fd == [Name |-> IF t.name # None THEN t.name[1] ELSE fieldNameToFlagName(fld.fieldName),
               EnvVarName |-> IF t.env # None THEN Some(ToUpper(t.env[1])) ELSE None,
               HasValue |-> fld.kind # "bool",
               ValueName |-> t.valueName,
               Description |-> t.desc,
               Required |-> IF t.required # None THEN Some(ParseBool(t.required[1])) ELSE None,
               DefaultValue |-> IF fld.kind \in {"bool", "string", "strings"}
                                THEN DefaultValueOf(fld) ELSE <<>>,
               Inherited |-> IF t.inherited # None THEN ParseBool(t.inherited[1])
                             ELSE defaultInherited,
               Targets |-> <<fld.id>>]
    IN
    IF bad(t.flag) THEN FailedFlagSet
    ELSE IF t.flag # None /\ ~ParseBool(t.flag[1]) THEN fs
    ELSE IF t.name # None /\ t.name[1] = <<>> THEN FailedFlagSet
    ELSE IF t.env # None /\ t.env[1] = <<>> THEN FailedFlagSet
    ELSE IF t.valueName # None /\ (t.valueName[1] = <<>> \/ fld.kind = "bool") THEN FailedFlagSet
    ELSE IF bad(t.required) \/ bad(t.inherited) \/ bad(t.args) THEN FailedFlagSet
    ELSE IF fld.kind = "struct" THEN
        IF on(t.args) \/ flagTagged THEN FailedFlagSet
        ELSE readFlagsFromStruct(fs, fld.init, fd.Inherited)
    ELSE IF ~on(t.args) /\ ~flagTagged THEN fs
    ELSE IF on(t.args) THEN
        IF flagTagged \/ fld.kind # "strings" THEN FailedFlagSet
        ELSE addPositionalsTarget(fs, fld.id)
    ELSE IF fld.kind \notin {"bool", "string", "strings"} THEN FailedFlagSet
    ELSE registerFlag(fs, fd)

readFlagsFromStruct(fs, s, defaultInherited) ==
    IF s = <<>> THEN fs
    ELSE
        LET next == readFlagFromField(fs, Head(s), defaultInherited) IN
        IF next.failed THEN FailedFlagSet
        ELSE readFlagsFromStruct(next, Tail(s), defaultInherited)

\* newFlagSet over the configuration objects of one command
RECURSIVE newFlagSetFrom(_, _)
newFlagSetFrom(fs, objects) ==
    IF objects = <<>> THEN fs
    ELSE
        LET next == readFlagsFromStruct(fs, Head(objects), FALSE) IN
        IF next.failed THEN FailedFlagSet
        ELSE newFlagSetFrom(next, Tail(objects))

newFlagSet(objects) == newFlagSetFrom(NoFlagSet, objects)

-----------------------------------------------------------------------------
(* The command tree and its configuration objects *)

Commands == {"cmd", "sub", "leaf"}

CommandName ==
    [cmd |-> <<"c", "m", "d">>, sub |-> <<"s", "u", "b">>, leaf |-> <<"l", "e", "a", "f">>]

ParentOf == [cmd |-> None, sub |-> Some("cmd"), leaf |-> Some("cmd")]

SubCommandsOf == [cmd |-> <<"sub", "leaf">>, sub |-> <<>>, leaf |-> <<>>]

HasAction == [cmd |-> FALSE, sub |-> TRUE, leaf |-> TRUE]

NumPreRunHooks == [cmd |-> 2, sub |-> 1, leaf |-> 0]

NumPostRunHooks == [cmd |-> 1, sub |-> 2, leaf |-> 0]

HelpDescription == <<"h">>

\* The built-in help switch every command carries
HelpConfig(id) ==
    << Field(id, <<"H", "e", "l", "p">>, "bool",
             [NoTags EXCEPT !.inherited = Some(FormatBool(TRUE)),
                            !.desc = Some(HelpDescription)],
             FALSE) >>

\* The action and hook objects handed to New for each command, as structs
ConfigObjects ==
    [cmd |->
        << HelpConfig("cmd.Help"),
           << Field("cmd.pre1.A", <<"A">>, "string",
                    [NoTags EXCEPT !.name = Some(<<"a">>), !.env = Some(<<"a", "x">>),
                                   !.inherited = Some(FormatBool(TRUE))],
                    <<>>),
              Field("cmd.pre1.V", <<"V">>, "bool",
                    [NoTags EXCEPT !.flag = Some(FormatBool(TRUE))], TRUE),
              Field("cmd.pre1.Skipped", <<"S", "k", "i", "p", "p", "e", "d">>, "string",
                    NoTags, <<"d">>) >>,
           << Field("cmd.post1.Args", <<"A", "r", "g", "s">>, "strings",
                    [NoTags EXCEPT !.args = Some(FormatBool(TRUE))], <<>>) >> >>,
     sub |->
        << HelpConfig("sub.Help"),
           << Field("sub.act.A", <<"A">>, "string",
                    [NoTags EXCEPT !.name = Some(<<"a">>)], <<>>),
              Field("sub.act.MyF", <<"M", "y", "F">>, "string",
                    [NoTags EXCEPT !.required = Some(FormatBool(TRUE))], <<>>),
              Field("sub.act.B", <<"B">>, "bool",
                    [NoTags EXCEPT !.flag = Some(FormatBool(TRUE))], FALSE),
              Field("sub.act.V", <<"V">>, "string",
                    [NoTags EXCEPT !.flag = Some(FormatBool(TRUE))], <<>>),
              Field("sub.act.Args", <<"A", "r", "g", "s">>, "strings",
                    [NoTags EXCEPT !.args = Some(FormatBool(TRUE))], <<>>) >>,
           << Field("sub.pre1.MyF", <<"M", "y", "F">>, "string",
                    [NoTags EXCEPT !.required = Some(FormatBool(TRUE))], <<>>),
              Field("sub.pre1.Q", <<"Q">>, "string",
                    [NoTags EXCEPT !.required = Some(FormatBool(TRUE))], <<"d">>),
              Field("sub.pre1.Z", <<"Z">>, "string",
                    [NoTags EXCEPT !.required = Some(FormatBool(TRUE))], <<>>) >> >>,
     leaf |->
        << HelpConfig("leaf.Help"),
           << Field("leaf.act.B", <<"B">>, "bool",
                    [NoTags EXCEPT !.flag = Some(FormatBool(TRUE))], FALSE) >> >>]

AllFields ==
    UNION { UNION { { ConfigObjects[c][o][n] : n \in DOMAIN ConfigObjects[c][o] } :
                    o \in DOMAIN ConfigObjects[c] } : c \in Commands }

FieldIds == { f.id : f \in AllFields }

FieldById(id) == CHOOSE f \in AllFields : f.id = id

\* The registry New builds for each command, chained to its parent's
Registry == [c \in Commands |-> newFlagSet(ConfigObjects[c])]

\* Command.getChain: the commands from the root down to c
RECURSIVE getChain(_)
getChain(c) ==
    IF ParentOf[c] = None THEN <<c>> ELSE Append(getChain(ParentOf[c][1]), c)

-----------------------------------------------------------------------------
(* Flag merging *)

defaultIfNil(v, defaultValue) == IF v = None THEN defaultValue ELSE v[1]

intForBool(b) == IF b THEN 1 ELSE 0

IntCompare(a, b) == IF a < b THEN -1 ELSE IF a > b THEN 1 ELSE 0

\* The comparisons flagDef.isLessThan makes, in its order
flagDefKeys(a, b) ==
    << StrCompare(a.Name, b.Name),
       StrCompare(defaultIfNil(a.EnvVarName, <<>>), defaultIfNil(b.EnvVarName, <<>>)),
       IntCompare(intForBool(a.HasValue), intForBool(b.HasValue)),
       StrCompare(defaultIfNil(a.ValueName, <<>>), defaultIfNil(b.ValueName, <<>>)),
       StrCompare(defaultIfNil(a.Description, <<>>), defaultIfNil(b.Description, <<>>)),
       IntCompare(intForBool(defaultIfNil(a.Required, FALSE)),
                  intForBool(defaultIfNil(b.Required, FALSE))),
       StrCompare(a.DefaultValue, b.DefaultValue),
       IntCompare(intForBool(a.Inherited), intForBool(b.Inherited)) >>

\* The first comparison that is not 0 decides
firstDecides(keys) == \E n \in DOMAIN keys : keys[n] < 0 /\ \A m \in 1..(n - 1) : keys[m] = 0

isLessThan(a, b) == firstDecides(flagDefKeys(a, b))

\* An attribute of the accumulator that is unset is taken from the descriptor
fillUnset(mine, theirs) == IF mine = None THEN theirs ELSE mine

\* Both set and different
conflicts(mine, theirs) == mine # None /\ theirs # None /\ mine # theirs

\* mergedFlagDef.addFlagDef: [failed, attribute, mfd].  Attributes are
\* compared and filled in the code's order, so the fills made before a
\* conflict stay in the accumulator
addFlagDef(mfd, fd) ==
    IF fd.Name # mfd.Name
        THEN [failed |-> TRUE, attribute |-> "name", mfd |-> mfd]
    ELSE IF conflicts(mfd.EnvVarName, fd.EnvVarName)
        THEN [failed |-> TRUE, attribute |-> "environment variable name", mfd |-> mfd]
    ELSE IF fd.HasValue # mfd.HasValue
        THEN [failed |-> TRUE, attribute |-> "value",
              mfd |-> [mfd EXCEPT !.EnvVarName = fillUnset(@, fd.EnvVarName)]]
    ELSE IF conflicts(mfd.ValueName, fd.ValueName)
        THEN [failed |-> TRUE, attribute |-> "value-name",
              mfd |-> [mfd EXCEPT !.EnvVarName = fillUnset(@, fd.EnvVarName)]]
    ELSE IF conflicts(mfd.Description, fd.Description)
        THEN [failed |-> TRUE, attribute |-> "description",
              mfd |-> [mfd EXCEPT !.EnvVarName = fillUnset(@, fd.EnvVarName),
                                  !.ValueName = fillUnset(@, fd.ValueName)]]
    ELSE IF mfd.Required = Some(TRUE) /\ fd.Required = Some(FALSE)
        THEN [failed |-> TRUE, attribute |-> "required",
              mfd |-> [mfd EXCEPT !.EnvVarName = fillUnset(@, fd.EnvVarName),
                                  !.ValueName = fillUnset(@, fd.ValueName),
                                  !.Description = fillUnset(@, fd.Description)]]
    ELSE IF fd.DefaultValue # mfd.DefaultValue
        THEN [failed |-> TRUE, attribute |-> "default value",
              mfd |-> [mfd EXCEPT !.EnvVarName = fillUnset(@, fd.EnvVarName),
                                  !.ValueName = fillUnset(@, fd.ValueName),
                                  !.Description = fillUnset(@, fd.Description),
                                  !.Required = fillUnset(@, fd.Required)]]
    ELSE [failed |-> FALSE, attribute |-> "",
          mfd |-> [mfd EXCEPT !.EnvVarName = fillUnset(@, fd.EnvVarName),
                              !.ValueName = fillUnset(@, fd.ValueName),
                              !.Description = fillUnset(@, fd.Description),
                              !.Required = fillUnset(@, fd.Required),
                              !.flagDefs = Append(@, fd)]]

\* The mergedFlagDef getMergedFlagDefs seeds from the first descriptor of a name
newMergedFlagDef(fd) ==
    [Name |-> fd.Name, EnvVarName |-> fd.EnvVarName, HasValue |-> fd.HasValue,
     ValueName |-> fd.ValueName, Description |-> fd.Description, Required |-> fd.Required,
     DefaultValue |-> fd.DefaultValue, flagDefs |-> <<fd>>]

\* A merge that takes every descriptor of every ancestor
isVisible_all(fd, own) == TRUE

\* Whether getMergedFlagDefs takes descriptor fd of a registry: always from
\* the command's own registry, from an ancestor's only when inherited
isVisible(fd, own) == own \/ fd.Inherited

\* The descriptors getMergedFlagDefs visits for command c, in visiting order:
\* the command's own registry first, then each ancestor's
RECURSIVE visibleFlagDefs(_, _)
visibleFlagDefs(c, own) ==
    SelectSeq(Registry[c].flags, LAMBDA fd : isVisible(fd, own))
        \o (IF ParentOf[c] = None THEN <<>> ELSE visibleFlagDefs(ParentOf[c][1], FALSE))

IndexOfName(mfds, name) == CHOOSE n \in DOMAIN mfds : mfds[n].Name = name

HasName(mfds, name) == \E n \in DOMAIN mfds : mfds[n].Name = name

\* The map-filling loop of getMergedFlagDefs: [failed, flags], flags in
\* first-seen order
RECURSIVE foldFlagDefs(_, _)

foldInto(acc, n, r, rest) ==
    IF r.failed THEN [failed |-> TRUE, flags |-> <<>>]
    ELSE foldFlagDefs([acc EXCEPT ![n] = r.mfd], rest)

foldOne(acc, fd, rest) ==
    IF HasName(acc, fd.Name)
    THEN foldInto(acc, IndexOfName(acc, fd.Name),
                  addFlagDef(acc[IndexOfName(acc, fd.Name)], fd), rest)
    ELSE foldFlagDefs(Append(acc, newMergedFlagDef(fd)), rest)

foldFlagDefs(acc, fds) ==
    IF fds = <<>> THEN [failed |-> FALSE, flags |-> acc]
    ELSE foldOne(acc, Head(fds), Tail(fds))

\* sort.Slice by less, as an insertion sort
RECURSIVE InsertFlagDef(_, _)
InsertFlagDef(sorted, fd) ==
    IF sorted = <<>> THEN <<fd>>
    ELSE IF isLessThan(fd, Head(sorted)) THEN <<fd>> \o sorted
    ELSE <<Head(sorted)>> \o InsertFlagDef(Tail(sorted), fd)

RECURSIVE SortFlagDefs(_)
SortFlagDefs(fds) ==
    IF fds = <<>> THEN <<>>
    ELSE InsertFlagDef(SortFlagDefs(SubSeq(fds, 1, Len(fds) - 1)), fds[Len(fds)])

\* Variant: the merged flags are left in the order the map gave them
SortByName_asVisited(mfds) == mfds

RECURSIVE InsertByName(_, _)
InsertByName(sorted, mfd) ==
    IF sorted = <<>> THEN <<mfd>>
    ELSE IF StrCompare(mfd.Name, Head(sorted).Name) < 0 THEN <<mfd>> \o sorted
    ELSE <<Head(sorted)>> \o InsertByName(Tail(sorted), mfd)

RECURSIVE SortByName(_)
SortByName(mfds) ==
    IF mfds = <<>> THEN <<>>
    ELSE InsertByName(SortByName(SubSeq(mfds, 1, Len(mfds) - 1)), mfds[Len(mfds)])

\* The defaults getMergedFlagDefs fills in after folding
resolveMergedFlagDef(mfd) ==
    [mfd EXCEPT
        !.EnvVarName = IF @ = None THEN Some(flagNameToEnvVarName(mfd.Name)) ELSE @,
        !.ValueName = IF @ = None THEN Some(<<"V", "A", "L", "U", "E">>) ELSE @,
        !.Required = IF @ = None THEN Some(FALSE) ELSE @,
        !.flagDefs = SortFlagDefs(@)]

finishMerge(folded) ==
    IF folded.failed THEN folded
    ELSE [failed |-> FALSE,
          flags |-> SortByName([n \in DOMAIN folded.flags |->
                                    resolveMergedFlagDef(folded.flags[n])])]

\* The second loop of getMergedFlagDefs when the range over the map visits
\* its entries in the given order: [failed, flags, order]
mergedInOrder(folded, order) ==
    IF folded.failed THEN [failed |-> TRUE, flags |-> <<>>, order |-> order]
    ELSE [failed |-> FALSE,
          flags |-> SortByName([n \in DOMAIN folded.flags |->
                                    resolveMergedFlagDef(folded.flags[order[n]])]),
          order |-> order]

\* The orders in which a range over the map of merged flags can visit it
MapOrders(folded) ==
    IF folded.flags = <<>> THEN { <<>> } ELSE Permutations(DOMAIN folded.flags)

\* flagSet.getMergedFlagDefs on the registry of each command
MergedFlagDefs == [c \in Commands |-> finishMerge(foldFlagDefs(<<>>, visibleFlagDefs(c, TRUE)))]

getMergedFlagDefs(c) == MergedFlagDefs[c]

mergedIsRequired(mfd) == mfd.Required # None /\ mfd.Required[1]

getValueName(mfd) ==
    IF mfd.HasValue
    THEN (IF mfd.ValueName # None THEN mfd.ValueName[1] ELSE <<"V", "A", "L", "U", "E">>)
    ELSE <<>>

\* Variant: no flag is wrapped in brackets
printFlag_bare(fd, valueName) ==
    IF valueName # <<>> THEN <<"-", "-">> \o fd.Name \o <<"=">> \o valueName
    ELSE <<"-", "-">> \o fd.Name

\* The body of the loop of printFlagsSingleLine, after the separating space
printFlag(fd, valueName) ==
    (IF ~mergedIsRequired(fd) THEN <<"[">> ELSE <<>>)
        \o (IF valueName # <<>> THEN <<"-", "-">> \o fd.Name \o <<"=">> \o valueName
            ELSE <<"-", "-">> \o fd.Name)
        \o (IF ~mergedIsRequired(fd) THEN <<"]">> ELSE <<>>)

\* The loop of printFlagsSingleLine over the merged flags, writing to b
RECURSIVE printFlags(_, _, _)
printFlags(mfds, space, b) ==
    IF mfds = <<>> THEN b
    ELSE printFlags(Tail(mfds), TRUE,
                    b \o (IF space THEN <<" ">> ELSE <<>>)
                      \o printFlag(Head(mfds), getValueName(Head(mfds))))

\* flagSet.printFlagsSingleLine on the result of getMergedFlagDefs, for a
\* registry with the given number of positional-argument targets: [failed, b]
printFlagsSingleLine(merged, numTargets) ==
    IF merged.failed THEN [failed |-> TRUE, b |-> <<>>]
    ELSE [failed |-> FALSE,
          b |-> printFlags(merged.flags, FALSE, <<>>)
                    \o (IF numTargets > 0
                        THEN (IF merged.flags # <<>> THEN <<" ">> ELSE <<>>)
                                \o <<"[", "A", "R", "G", "S", ".", ".", ".", "]">>
                        ELSE <<>>)]

-----------------------------------------------------------------------------
(* Value coercion *)

NoErr == [type |-> "nil", Flag |-> <<>>, Value |-> <<>>]

Err(type, flag, value) == [type |-> type, Flag |-> flag, Value |-> value]

\* strings.Split(s, ",") with the element being collected
RECURSIVE SplitCommaFrom(_, _)
SplitCommaFrom(s, cur) ==
    IF s = <<>> THEN <<cur>>
    ELSE IF Head(s) = "," THEN <<cur>> \o SplitCommaFrom(Tail(s), <<>>)
    ELSE SplitCommaFrom(Tail(s), Append(cur, Head(s)))

KindOf == [id \in FieldIds |-> FieldById(id).kind]

Digits == <<"0", "1", "2", "3", "4", "5", "6", "7", "8", "9">>

IsDigits(s) == s # <<>> /\ \A n \in DOMAIN s : IsIn(Digits, s[n])

\* The number a text of digits denotes, with the number so far
RECURSIVE DigitsValue(_, _)
DigitsValue(s, acc) ==
    IF s = <<>> THEN acc ELSE DigitsValue(Tail(s), acc * 10 + (IndexIn(Digits, Head(s)) - 1))

Pow2(n) == 2 ^ n

\* The texts given to setValue denote numbers below 2^31, so that a parse at
\* 32 bits or more never leaves the range
SignedInRange(x, bitSize) ==
    bitSize >= 32 \/ (x >= 0 - Pow2(bitSize - 1) /\ x <= Pow2(bitSize - 1) - 1)

UnsignedInRange(x, bitSize) == bitSize >= 32 \/ x <= Pow2(bitSize) - 1

\* strconv.ParseInt(s, 10, bitSize): an optional sign, then digits: [ok, value]
ParseInt(s, bitSize) ==
    IF s # <<>> /\ Head(s) \in { "-", "+" }
    THEN IF IsDigits(Tail(s))
         THEN [ok |-> SignedInRange(IF Head(s) = "-" THEN 0 - DigitsValue(Tail(s), 0)
                                    ELSE DigitsValue(Tail(s), 0), bitSize),
               value |-> IF Head(s) = "-" THEN 0 - DigitsValue(Tail(s), 0)
                         ELSE DigitsValue(Tail(s), 0)]
         ELSE [ok |-> FALSE, value |-> 0]
    ELSE IF IsDigits(s)
         THEN [ok |-> SignedInRange(DigitsValue(s, 0), bitSize), value |-> DigitsValue(s, 0)]
         ELSE [ok |-> FALSE, value |-> 0]

\* strconv.ParseUint(s, 10, bitSize): digits only: [ok, value]
ParseUint(s, bitSize) ==
    IF IsDigits(s)
    THEN [ok |-> UnsignedInRange(DigitsValue(s, 0), bitSize), value |-> DigitsValue(s, 0)]
    ELSE [ok |-> FALSE, value |-> 0]

\* The width in bits of the integer kinds
BitsOf == [int8 |-> 8, int16 |-> 16, uint8 |-> 8, uint16 |-> 16]

SignedKinds == { "int8", "int16" }

UnsignedKinds == { "uint8", "uint16" }

\* reflect.Value.SetInt on a field of w bits keeps the low w bits of x
SetInt(x, w) == ((x + Pow2(w - 1)) % Pow2(w)) - Pow2(w - 1)

\* reflect.Value.SetUint on a field of w bits keeps the low w bits of x
SetUint(x, w) == x % Pow2(w)

\* The integer cases of setValue: the text is parsed at 64 bits and the
\* number is stored by SetInt or SetUint
coerceInt(kind, parsed) ==
    [ok |-> parsed.ok,
     value |-> IF kind \in SignedKinds THEN SetInt(parsed.value, BitsOf[kind])
               ELSE SetUint(parsed.value, BitsOf[kind])]

\* The switch of flagDef.setValue on the kind of one target: [ok, value]
coerce(kind, sv) ==
    CASE kind = "bool" -> [ok |-> ParseBoolOk(sv), value |-> ParseBool(sv)]
      [] kind = "string" -> [ok |-> TRUE, value |-> sv]
      [] kind = "strings" -> [ok |-> sv # <<>>, value |-> SplitCommaFrom(sv, <<>>)]
      [] kind \in SignedKinds -> coerceInt(kind, ParseInt(sv, 64))
      [] kind \in UnsignedKinds -> coerceInt(kind, ParseUint(sv, 64))
      [] OTHER -> [ok |-> FALSE, value |-> sv]

\* flagDef.setValue: sv is parsed for and written to each target in turn; the
\* first target that rejects sv ends the loop with the earlier writes in place
RECURSIVE setTargets(_, _, _, _)

\* Variant: only the first target of a descriptor is written
setTarget_firstOnly(flds, name, targets, sv, coerced) ==
    IF coerced.ok
    THEN [err |-> NoErr, fields |-> [flds EXCEPT ![Head(targets)] = coerced.value]]
    ELSE [err |-> Err("ErrInvalidValue", name, sv), fields |-> flds]

setTarget(flds, name, targets, sv, coerced) ==
    IF coerced.ok
    THEN setTargets([flds EXCEPT ![Head(targets)] = coerced.value], name, Tail(targets), sv)
    ELSE [err |-> Err("ErrInvalidValue", name, sv), fields |-> flds]

setTargets(flds, name, targets, sv) ==
    IF targets = <<>> THEN [err |-> NoErr, fields |-> flds]
    ELSE setTarget(flds, name, targets, sv, coerce(KindOf[Head(targets)], sv))

flagDefSetValue(flds, fd, sv) == setTargets(flds, fd.Name, fd.Targets, sv)

\* mergedFlagDef.setValue on the apply state st = [err, fields, applied]:
\* the merged flag is marked applied, then every descriptor is set in order
RECURSIVE setFlagDefs(_, _, _)

afterFlagDef(st, fds, v, r) ==
    IF r.err # NoErr THEN [st EXCEPT !.err = r.err, !.fields = r.fields]
    ELSE setFlagDefs([st EXCEPT !.fields = r.fields], Tail(fds), v)

setFlagDefs(st, fds, v) ==
    IF fds = <<>> THEN st
    ELSE afterFlagDef(st, fds, v, flagDefSetValue(st.fields, Head(fds), v))

mergedSetValue(st, mfd, v) ==
    setFlagDefs([st EXCEPT !.applied = @ \cup {mfd.Name}], mfd.flagDefs, v)

\* An isMissing that forgets the applied mark
isMissing_ignoresApplied(st, mfd) == mergedIsRequired(mfd)

\* mergedFlagDef.isMissing
isMissing(st, mfd) == mergedIsRequired(mfd) /\ mfd.Name \notin st.applied

-----------------------------------------------------------------------------
(* The application pipeline *)

\* The result of a setValue that failed while applying a default
defaultErr(st, mfd) ==
    IF st.err # NoErr
    THEN [st EXCEPT !.err = Err("failed applying default value", mfd.Name, mfd.DefaultValue)]
    ELSE st

\* apply sets the default value when it is not the empty string
seedDefault(st, mfd) ==
    IF mfd.DefaultValue # <<>>
    THEN defaultErr(mergedSetValue(st, mfd, mfd.DefaultValue), mfd)
    ELSE st

\* apply sets the value of the flag's environment variable when there is one
seedEnv(st, mfd, env) ==
    IF st.err # NoErr THEN st
    ELSE IF mfd.EnvVarName[1] \in DOMAIN env
    THEN mergedSetValue(st, mfd, env[mfd.EnvVarName[1]])
    ELSE st

\* One iteration of apply's loop over the merged flags: the default value
\* first, then the environment variable, which so overrides it
seedFlag(st, mfd, env) == seedEnv(seedDefault(st, mfd), mfd, env)

RECURSIVE seedFlags(_, _, _)
seedFlags(st, mfds, env) ==
    IF mfds = <<>> \/ st.err # NoErr THEN st
    ELSE seedFlags(seedFlag(st, Head(mfds), env), Tail(mfds), env)

TrueText == FormatBool(TRUE)

\* What the function registered with stdFs.Func / stdFs.BoolFunc does with
\* the text the scanner hands it
registeredSet(st, mfd, text) ==
    IF mfd.HasValue THEN mergedSetValue(st, mfd, text)
    ELSE mergedSetValue(st, mfd, TrueText)

HelpNames == { <<"h", "e", "l", "p">>, <<"h">> }

\* The scanner's result after calling the registered function
afterSet(r, rest, failure) ==
    IF r.err # NoErr
    THEN [more |-> FALSE, rest |-> rest, st |-> [r EXCEPT !.err = failure]]
    ELSE [more |-> TRUE, rest |-> rest, st |-> r]

\* parseOne once the flag is found: a switch is set without consuming a
\* value; a value flag takes its value after '=' or from the next argument
parseDefined(st, after, mfd, hasValue, value) ==
    IF ~mfd.HasValue
    THEN afterSet(registeredSet(st, mfd, IF hasValue THEN value ELSE TrueText), after,
                  Err("invalid boolean value", mfd.Name, value))
    ELSE IF hasValue
    THEN afterSet(registeredSet(st, mfd, value), after,
                  Err("invalid value", mfd.Name, value))
    ELSE IF after = <<>>
    THEN [more |-> FALSE, rest |-> after,
          st |-> [st EXCEPT !.err = Err("flag needs an argument", mfd.Name, <<>>)]]
    ELSE afterSet(registeredSet(st, mfd, Head(after)), Tail(after),
                  Err("invalid value", mfd.Name, Head(after)))

\* parseOne once the name is split from the value
parseNamed(mfds, st, after, name, hasValue, value) ==
    IF ~HasName(mfds, name)
    THEN [more |-> FALSE, rest |-> after,
          st |-> [st EXCEPT !.err =
                    IF name \in HelpNames THEN Err("ErrHelp", name, <<>>)
                    ELSE Err("flag provided but not defined", name, <<>>)]]
    ELSE parseDefined(st, after, mfds[IndexOfName(mfds, name)], hasValue, value)

FirstEq(full) == CHOOSE n \in 2..Len(full) : full[n] = "=" /\ \A m \in 2..(n - 1) : full[m] # "="

\* parseOne on the text after the dashes: the name ends at the first '='
\* that is not the first character
parseDashed(mfds, st, after, s, full) ==
    IF Len(full) = 0 \/ full[1] = "-" \/ full[1] = "="
    THEN [more |-> FALSE, rest |-> <<s>> \o after,
          st |-> [st EXCEPT !.err = Err("bad flag syntax", <<>>, s)]]
    ELSE IF \E n \in 2..Len(full) : full[n] = "="
    THEN parseNamed(mfds, st, after, SubSeq(full, 1, FirstEq(full) - 1), TRUE,
                    SubSeq(full, FirstEq(full) + 1, Len(full)))
    ELSE parseNamed(mfds, st, after, full, FALSE, <<>>)

\* flag.FlagSet.parseOne as apply uses it: [more, st, rest]
parseOne(mfds, st, rest) ==
    IF rest = <<>> THEN [more |-> FALSE, st |-> st, rest |-> rest]
    ELSE IF Len(Head(rest)) < 2 \/ Head(rest)[1] # "-"
    THEN [more |-> FALSE, st |-> st, rest |-> rest]
    ELSE IF Head(rest) = <<"-", "-">>
    THEN [more |-> FALSE, st |-> st, rest |-> Tail(rest)]
    ELSE parseDashed(mfds, st, Tail(rest), Head(rest),
                     SubSeq(Head(rest), IF Head(rest)[2] = "-" THEN 3 ELSE 2, Len(Head(rest))))

\* flag.FlagSet.Parse: parseOne until it stops or fails
RECURSIVE stdParse(_, _, _)

parseMore(mfds, r) == IF r.more THEN stdParse(mfds, r.st, r.rest) ELSE r

stdParse(mfds, st, rest) == parseMore(mfds, parseOne(mfds, st, rest))

\* The error apply returns for a scanner error: the typed unknown-flag error
\* when the text matches `^flag provided but not defined: -(.+)$`
parseError(e) ==
    IF e.type = "flag provided but not defined" /\ e.Flag # <<>>
    THEN Err("ErrUnknownFlag", e.Flag, <<>>)
    ELSE e

Least(S) == CHOOSE n \in S : \A m \in S : n <= m

\* The indexes of the merged flags that are still missing
missingFlags(st, mfds) == { n \in DOMAIN mfds : isMissing(st, mfds[n]) }

\* apply's loop over the merged flags returns at the first missing one
firstMissing(st, mfds) ==
    IF missingFlags(st, mfds) = {} THEN NoErr
    ELSE Err("ErrRequiredFlagMissing", mfds[Least(missingFlags(st, mfds))].Name, <<>>)

\* An apply that assigns the positionals to its own registry's targets only
chainPositionalsTargets_ownOnly(c) ==
    { Registry[c].positionalsTargets[n] : n \in DOMAIN Registry[c].positionalsTargets }

\* The positional targets apply assigns: those of c's registry and of every
\* ancestor registry
RECURSIVE chainPositionalsTargets(_)
chainPositionalsTargets(c) ==
    { Registry[c].positionalsTargets[n] : n \in DOMAIN Registry[c].positionalsTargets }
        \cup (IF ParentOf[c] = None THEN {} ELSE chainPositionalsTargets(ParentOf[c][1]))

ChainTargets == [c \in Commands |-> chainPositionalsTargets(c)]

assignPositionals(c, targets, positionals) ==
    [t \in DOMAIN targets |->
        IF t \in ChainTargets[c] THEN [assigned |-> TRUE, value |-> positionals]
        ELSE targets[t]]

\* apply after the required-flag check
applyChecked(missing, parsed, c, targets) ==
    IF missing # NoErr
    THEN [err |-> missing, fields |-> parsed.st.fields, posTargets |-> targets]
    ELSE [err |-> NoErr, fields |-> parsed.st.fields,
          posTargets |-> assignPositionals(c, targets, parsed.rest)]

\* apply after stdFs.Parse
applyParsed(parsed, mfds, c, targets) ==
    IF parsed.st.err # NoErr
    THEN [err |-> parseError(parsed.st.err), fields |-> parsed.st.fields,
          posTargets |-> targets]
    ELSE applyChecked(firstMissing(parsed.st, mfds), parsed, c, targets)

\* apply after the loop that seeds defaults and environment variables
applySeeded(seeded, mfds, c, argv, targets) ==
    IF seeded.err # NoErr
    THEN [err |-> seeded.err, fields |-> seeded.fields, posTargets |-> targets]
    ELSE applyParsed(stdParse(mfds, seeded, argv), mfds, c, targets)

\* apply after getMergedFlagDefs
applyMerged(merged, c, env, argv, flds, targets) ==
    IF merged.failed
    THEN [err |-> Err("merge", <<>>, <<>>), fields |-> flds, posTargets |-> targets]
    ELSE applySeeded(seedFlags([err |-> NoErr, fields |-> flds, applied |-> {}],
                               merged.flags, env),
                     merged.flags, c, argv, targets)

\* flagSet.apply on the registry of command c: [err, fields, posTargets]
apply(c, env, argv, flds, targets) ==
    applyMerged(getMergedFlagDefs(c), c, env, argv, flds, targets)

-----------------------------------------------------------------------------
(* Inputs *)

Tok_a_eq_1 == <<"-", "-", "a", "=", "1">>
Tok_a == <<"-", "-", "a">>
Tok_1 == <<"1">>
Tok_myf_eq_2 == <<"-", "-", "m", "y", "-", "f", "=", "2">>
Tok_myf == <<"-", "-", "m", "y", "-", "f">>
Tok_b == <<"-", "-", "b">>
Tok_b_eq_0 == <<"-", "-", "b", "=", "0">>
Tok_x == <<"-", "-", "x">>
Tok_dashes == <<"-", "-">>
Tok_help == <<"-", "-", "h", "e", "l", "p">>
Tok_sub == <<"s", "u", "b">>
Tok_h == <<"-", "-", "h">>

\* The tokens of the argument lists handed to flagSet.apply directly
ApplyTokens ==
    { Tok_a_eq_1, Tok_a, Tok_1, Tok_myf_eq_2, Tok_b, Tok_b_eq_0, Tok_x, Tok_h, Tok_dashes }

\* The tokens of the argument lists handed to ExecuteWithContext
ExecTokens ==
    { Tok_a_eq_1, Tok_a, Tok_1, Tok_myf, Tok_help, Tok_x, Tok_dashes, Tok_sub }

ArgLists(tokens, n) == UNION { [1..m -> tokens] : m \in 0..n }

Env_AX == <<"A", "X">>
Env_A == <<"A">>
Env_MY_F == <<"M", "Y", "_", "F">>
Env_B == <<"B">>
Env_Z == <<"Z">>

\* name/value pairs an environment map may hold
ApplyEnvPairs ==
    { <<Env_AX, <<"e">>>>, <<Env_A, <<"o">>>>, <<Env_MY_F, <<"e">>>>,
      <<Env_Z, <<"e">>>>, <<Env_B, <<"1">>>>, <<Env_B, <<"x">>>> }

ExecEnvPairs == { <<Env_MY_F, <<"e">>>>, <<Env_Z, <<"e">>>>, <<Env_B, <<"x">>>> }

EnvMaps(pairs) ==
    { [key \in { p[1] : p \in S } |-> (CHOOSE p \in S : p[1] = key)[2]] :
        S \in { S \in SUBSET pairs : \A p, q \in S : p[1] = q[1] => p = q } }

TerminalWidths == {0, 80}

ExitCodeSuccess == 0
ExitCodeError == 1
ExitCodeMisconfiguration == 2

IsPositionalsField(f) == f.tags.args # None /\ ParseBool(f.tags.args[1])

\* The configuration fields as New leaves them
InitialFields ==
    [id \in { f.id : f \in { g \in AllFields : ~IsPositionalsField(g) } } |->
        FieldById(id).init]

InitialPosTargets ==
    [id \in { f.id : f \in { g \in AllFields : IsPositionalsField(g) } } |->
        [assigned |-> FALSE, value |-> <<>>]]

-----------------------------------------------------------------------------
(* flagSet.apply called directly *)

InitApply ==
    /\ pc = "apply"
    /\ given \in Commands
    /\ args \in ArgLists(ApplyTokens, MaxArgs)
    /\ envVars \in EnvMaps(ApplyEnvPairs)
    /\ width = 80
    /\ fields = InitialFields
    /\ posTargets = InitialPosTargets
    /\ cmd = given
    /\ applyErr = NoErr
    /\ exitCode = ExitCodeSuccess
    /\ actionError = NoErr
    /\ out = <<>>
    /\ calls = <<>>
    /\ k = 0
    /\ callArgs = <<>>
    /\ returned = <<>>

Applied(r) ==
    /\ applyErr' = r.err
    /\ fields' = r.fields
    /\ posTargets' = r.posTargets

Apply ==
    /\ pc = "apply"
    /\ Applied(apply(cmd, envVars, args, fields, posTargets))
    /\ pc' = "applied"
    /\ UNCHANGED <<given, args, envVars, width, cmd, exitCode, actionError, out, calls, k, callArgs, returned>>

NextApply == Apply

SpecApply == InitApply /\ [][NextApply]_vars


-----------------------------------------------------------------------------
(* ExecuteWithContext *)

\* Variant: a splitter that knows neither the separator nor sub-commands
inferStep_flagsOnly(st, arg) ==
    IF HasPrefix(arg, <<"-">>) THEN [st EXCEPT !.flags = Append(@, arg)]
    ELSE [st EXCEPT !.positionals = Append(@, arg)]

\* One iteration of the argument splitter's loop on
\* st = [cmd, flags, positionals, onlyPositionalArgs]
inferStep(st, arg) ==
    IF st.onlyPositionalArgs THEN [st EXCEPT !.positionals = Append(@, arg)]
    ELSE IF arg = <<"-", "-">> THEN [st EXCEPT !.onlyPositionalArgs = TRUE]
    ELSE IF HasPrefix(arg, <<"-">>) THEN [st EXCEPT !.flags = Append(@, arg)]
    ELSE
        LET subs == SubCommandsOf[st.cmd]
            found == { n \in DOMAIN subs : CommandName[subs[n]] = arg }
        IN
        IF found # {}
        THEN [st EXCEPT !.cmd = subs[CHOOSE n \in found : \A m \in found : n <= m]]
        ELSE [st EXCEPT !.positionals = Append(@, arg)]

RECURSIVE inferFrom(_, _)
inferFrom(st, rest) ==
    IF rest = <<>> THEN st ELSE inferFrom(inferStep(st, Head(rest)), Tail(rest))

\* The argument splitter: the resolved command, the flags and the positionals
inferCommandAndArgs(root, argv) ==
    inferFrom([cmd |-> root, flags |-> <<>>, positionals |-> <<>>,
               onlyPositionalArgs |-> FALSE], argv)

\* The argument list ExecuteWithContext hands to apply
appliedArgs(inferred) == inferred.flags \o inferred.positionals

HelpFieldOf == [cmd |-> "cmd.Help", sub |-> "sub.Help", leaf |-> "leaf.Help"]

\* NewWrappingWriter rejects a width that is not positive
NewWrappingWriterFails(w) == w <= 0

\* Command.PrintUsageLine and Command.PrintHelp render through a wrapping
\* writer of the terminal's width over the merged flags of the command
renderFails(c, w) == NewWrappingWriterFails(w) \/ getMergedFlagDefs(c).failed

ExecutionCtx == "executionCtx"

\* The context the deferred loop hands to PostRun
postRunCtx(ctx) == ctx

IdxText == <<"1", "2", "3">>

HookErr(kind, c, idx) == Err(kind, <<>>, <<c, IdxText[idx]>>)

\* A pre-run loop that walks each command's hooks from the last one down
RECURSIVE preRunOrder_lastFirst(_)
preRunOrder_lastFirst(chain) ==
    IF chain = <<>> THEN <<>>
    ELSE [j \in 1..NumPreRunHooks[Head(chain)] |->
                <<Head(chain), NumPreRunHooks[Head(chain)] + 1 - j>>]
            \o preRunOrder_lastFirst(Tail(chain))

\* The hooks of the nested loops over chain and hooks, as <<command, index>>
RECURSIVE preRunOrder(_)
preRunOrder(chain) ==
    IF chain = <<>> THEN <<>>
    ELSE [j \in 1..NumPreRunHooks[Head(chain)] |-> <<Head(chain), j>>]
            \o preRunOrder(Tail(chain))

\* A deferred loop that walks each command's hooks from the first one up
RECURSIVE postRunOrder_firstFirst(_)
postRunOrder_firstFirst(chain) ==
    IF chain = <<>> THEN <<>>
    ELSE [j \in 1..NumPostRunHooks[chain[Len(chain)]] |-> <<chain[Len(chain)], j>>]
            \o postRunOrder_firstFirst(SubSeq(chain, 1, Len(chain) - 1))

RECURSIVE postRunOrder(_)
postRunOrder(chain) ==
    IF chain = <<>> THEN <<>>
    ELSE LET c == chain[Len(chain)]
             n == NumPostRunHooks[c]
         IN [j \in 1..n |-> <<c, n + 1 - j>>]
                \o postRunOrder(SubSeq(chain, 1, Len(chain) - 1))

Call(kind, c, idx, ctx, failed) ==
    [kind |-> kind, cmd |-> c, idx |-> idx, ctx |-> ctx, failed |-> failed,
     actionError |-> actionError, exitCode |-> exitCode]

InitExec ==
    /\ pc = "start"
    /\ given \in Commands
    /\ args \in ArgLists(ExecTokens, MaxExecArgs)
    /\ envVars \in EnvMaps(ExecEnvPairs)
    /\ width \in TerminalWidths
    /\ fields = InitialFields
    /\ posTargets = InitialPosTargets
    /\ cmd = given
    /\ applyErr = NoErr
    /\ exitCode = ExitCodeSuccess
    /\ actionError = NoErr
    /\ out = <<>>
    /\ calls = <<>>
    /\ k = 0
    /\ callArgs = <<>>
    /\ returned = <<>>

\* An executor that does not return when apply fails
nextAfterApply_ignoresError(c, r) ==
    IF r.err = NoErr /\ r.fields[HelpFieldOf[c]] THEN "done"
    ELSE IF preRunOrder(getChain(c)) = <<>> THEN "action"
    ELSE "preRun"

\* Where ExecuteWithContext continues after apply returned r for command c:
\* it returns after the usage line on an error and after the help screen when
\* help was asked for, and otherwise goes on to the hooks
nextAfterApply(c, r) ==
    IF r.err # NoErr THEN "done"
    ELSE IF r.fields[HelpFieldOf[c]] THEN "done"
    ELSE IF preRunOrder(getChain(c)) = <<>> THEN "action"
    ELSE "preRun"

\* The exit code of the branch that prints the usage line
usageExitCode(renderFailed) ==
    IF renderFailed THEN ExitCodeError ELSE ExitCodeMisconfiguration

\* The exit code of the branch that prints the help screen
helpExitCode(renderFailed) ==
    IF renderFailed THEN ExitCodeMisconfiguration ELSE ExitCodeSuccess

ErrorLine(c, err) == [kind |-> "error", cmd |-> c, err |-> err]

Rendered(kind, c) == [kind |-> kind, cmd |-> c, err |-> NoErr]

\* ExecuteWithContext from apply's return to the first hook
StartApplied(c, r) ==
    /\ cmd' = c
    /\ applyErr' = r.err
    /\ fields' = r.fields
    /\ posTargets' = r.posTargets
    /\ pc' = nextAfterApply(c, r)
    /\ IF r.err # NoErr THEN
            /\ out' = << ErrorLine(c, r.err),
                         Rendered(IF renderFails(c, width) THEN "render error"
                                  ELSE "usage line", c) >>
            /\ exitCode' = usageExitCode(renderFails(c, width))
       ELSE IF r.fields[HelpFieldOf[c]] THEN
            /\ out' = << Rendered(IF renderFails(c, width) THEN "render error"
                                  ELSE "help", c) >>
            /\ exitCode' = helpExitCode(renderFails(c, width))
       ELSE UNCHANGED <<out, exitCode>>

StartInferred(inferred) ==
    StartApplied(inferred.cmd,
                 apply(inferred.cmd, envVars, appliedArgs(inferred), fields, posTargets))

\* ExecuteWithContext up to the first hook: the root check, the argument
\* splitter, apply, and the usage / help exits
Start ==
    /\ pc = "start"
    /\ IF ParentOf[given] # None THEN
            /\ out' = << Rendered("not root", given) >>
            /\ exitCode' = ExitCodeError
            /\ pc' = "done"
            /\ UNCHANGED <<fields, posTargets, cmd, applyErr>>
       ELSE StartInferred(inferCommandAndArgs(given, args))
    /\ k' = 0
    /\ UNCHANGED <<given, args, envVars, width, actionError, calls, callArgs, returned>>

\* An executor without the deferred post-run loop
postRunStart_skipped(c) == "done"

\* The position the deferred post-run loop starts at
postRunStart(c) == IF postRunOrder(getChain(c)) = <<>> THEN "done" ELSE "postRun"

\* One PreRun call of the loop over the chain
PreRunHook ==
    /\ pc = "preRun"
    /\ LET order == preRunOrder(getChain(cmd))
           h == order[k + 1]
       IN \E failed \in BOOLEAN :
            /\ calls' = Append(calls, Call("preRun", h[1], h[2], ExecutionCtx, failed))
            /\ IF failed THEN
                    /\ out' = Append(out, ErrorLine(h[1], HookErr("preRun error", h[1], h[2])))
                    /\ actionError' = HookErr("preRun error", h[1], h[2])
                    /\ exitCode' = ExitCodeError
                    /\ pc' = postRunStart(cmd)
                    /\ k' = 0
               ELSE
                    /\ pc' = IF k + 1 = Len(order) THEN "action" ELSE "preRun"
                    /\ k' = IF k + 1 = Len(order) THEN 0 ELSE k + 1
                    /\ UNCHANGED <<out, actionError, exitCode>>
    /\ UNCHANGED <<given, args, envVars, width, fields, posTargets, cmd, applyErr, callArgs, returned>>

\* The action of the resolved command, or its help screen when it has none
RunAction ==
    /\ pc = "action"
    /\ IF HasAction[cmd] THEN
            \E failed \in BOOLEAN :
                /\ calls' = Append(calls, Call("action", cmd, 1, ExecutionCtx, failed))
                /\ IF failed THEN
                        /\ out' = Append(out, ErrorLine(cmd, HookErr("action error", cmd, 1)))
                        /\ actionError' = HookErr("action error", cmd, 1)
                        /\ exitCode' = ExitCodeError
                   ELSE UNCHANGED <<out, actionError, exitCode>>
       ELSE
            /\ calls' = calls
            /\ IF renderFails(cmd, width) THEN
                    /\ out' = Append(out, Rendered("render error", cmd))
                    /\ actionError' = HookErr("render error", cmd, 1)
                    /\ exitCode' = ExitCodeError
               ELSE
                    /\ out' = Append(out, Rendered("help", cmd))
                    /\ UNCHANGED <<actionError, exitCode>>
    /\ pc' = postRunStart(cmd)
    /\ k' = 0
    /\ UNCHANGED <<given, args, envVars, width, fields, posTargets, cmd, applyErr, callArgs, returned>>

\* One PostRun call of the deferred loop
PostRunHook ==
    /\ pc = "postRun"
    /\ LET order == postRunOrder(getChain(cmd))
           h == order[k + 1]
       IN \E failed \in BOOLEAN :
            /\ calls' = Append(calls, Call("postRun", h[1], h[2], postRunCtx(ExecutionCtx), failed))
            /\ IF failed THEN
                    /\ out' = Append(out, ErrorLine(h[1], HookErr("postRun error", h[1], h[2])))
                    /\ exitCode' = ExitCodeError
               ELSE UNCHANGED <<out, exitCode>>
            /\ pc' = IF k + 1 = Len(order) THEN "done" ELSE "postRun"
            /\ k' = k + 1
    /\ UNCHANGED <<given, args, envVars, width, fields, posTargets, cmd, applyErr, actionError, callArgs, returned>>

NextExec == Start \/ PreRunHook \/ RunAction \/ PostRunHook

SpecExec == InitExec /\ [][NextExec]_vars


-----------------------------------------------------------------------------
(* The documented reading of an argument list and of the environment *)

FlagsOf(c) == getMergedFlagDefs(c).flags

FlagNamed(c, name) == FlagsOf(c)[IndexOfName(FlagsOf(c), name)]

\* A token of the documented flag forms --name and --name=value
IsFlagToken(t) == Len(t) > 2 /\ HasPrefix(t, <<"-", "-">>)

HasEq(t) == \E n \in 4..Len(t) : t[n] = "="

EqPos(t) == CHOOSE n \in 4..Len(t) : t[n] = "=" /\ \A m \in 4..(n - 1) : t[m] # "="

TokenName(t) == IF HasEq(t) THEN SubSeq(t, 3, EqPos(t) - 1) ELSE SubSeq(t, 3, Len(t))

TokenValue(t) == SubSeq(t, EqPos(t) + 1, Len(t))

Given(name, value, stated) == [name |-> name, value |-> value, stated |-> stated]

\* The flags an argument list sets on command c, in order: flags are read up
\* to the first token that is no flag; a value flag takes its value after '='
\* or from the next token, a switch is set to true by its presence (the
\* value of a switch written with '=' is not documented: stated is FALSE).
\* ok is FALSE when a flag is unknown or a value flag has no value
RECURSIVE readArgs(_, _, _)

readKnown(c, argv, sets, mfd) ==
    IF HasEq(Head(argv))
    THEN readArgs(c, Tail(argv),
                  Append(sets, Given(mfd.Name, TokenValue(Head(argv)), mfd.HasValue)))
    ELSE IF ~mfd.HasValue
    THEN readArgs(c, Tail(argv), Append(sets, Given(mfd.Name, FormatBool(TRUE), TRUE)))
    ELSE IF Len(argv) < 2 THEN [ok |-> FALSE, sets |-> sets]
    ELSE readArgs(c, Tail(Tail(argv)), Append(sets, Given(mfd.Name, argv[2], TRUE)))

readArgs(c, argv, sets) ==
    IF argv = <<>> THEN [ok |-> TRUE, sets |-> sets]
    ELSE IF ~IsFlagToken(Head(argv)) THEN [ok |-> TRUE, sets |-> sets]
    ELSE IF ~HasName(FlagsOf(c), TokenName(Head(argv))) THEN [ok |-> FALSE, sets |-> sets]
    ELSE readKnown(c, argv, sets, FlagNamed(c, TokenName(Head(argv))))

ArgsRead(c, argv) == readArgs(c, argv, <<>>)

ArgsSet(sets, name) == \E n \in DOMAIN sets : sets[n].name = name

LastSet(sets, name) ==
    sets[CHOOSE n \in DOMAIN sets :
            sets[n].name = name /\ \A m \in (n + 1)..Len(sets) : sets[m].name # name]

\* The value a text stands for in a field of the given kind
ValueOfText(kind, text) == IF kind = "bool" THEN ParseBool(text) ELSE text

\* The fields bound to a merged flag
BoundFields(mfd) ==
    UNION { { mfd.flagDefs[d].Targets[t] : t \in DOMAIN mfd.flagDefs[d].Targets } :
            d \in DOMAIN mfd.flagDefs }

\* No environment variable of a switch of c holds a text that is no boolean
EnvWellFormed(c, env) ==
    \A n \in DOMAIN FlagsOf(c) :
        (~FlagsOf(c)[n].HasValue /\ FlagsOf(c)[n].EnvVarName[1] \in DOMAIN env)
            => ParseBoolOk(env[FlagsOf(c)[n].EnvVarName[1]])

\* No unknown flag and no malformed value
WellFormedInput(c, env, argv) == ArgsRead(c, argv).ok /\ EnvWellFormed(c, env)

\* A flag that nothing gives a value: required, with an empty default-value
\* string, no entry in the environment and not set by the arguments
Unprovided(c, env, argv, mfd) ==
    /\ mergedIsRequired(mfd)
    /\ mfd.DefaultValue = <<>>
    /\ mfd.EnvVarName[1] \notin DOMAIN env
    /\ ~ArgsSet(ArgsRead(c, argv).sets, mfd.Name)

UnprovidedFlags(c, env, argv) ==
    { n \in DOMAIN FlagsOf(c) : Unprovided(c, env, argv, FlagsOf(c)[n]) }

MissingErr(name) == Err("ErrRequiredFlagMissing", name, <<>>)

\* The flag of a set of merged flags that is first in ascending name order
FirstByName(c, S) ==
    FlagsOf(c)[CHOOSE n \in S :
                \A m \in S : StrCompare(FlagsOf(c)[n].Name, FlagsOf(c)[m].Name) <= 0]

-----------------------------------------------------------------------------
(* Claims about flagSet.apply *)

\* The value the precedence rule gives a field bound to mfd
ExpectedValue(sets, env, mfd, id) ==
    IF ArgsSet(sets, mfd.Name)
    THEN (IF LastSet(sets, mfd.Name).stated
          THEN ValueOfText(KindOf[id], LastSet(sets, mfd.Name).value)
          ELSE fields[id])
    ELSE IF mfd.EnvVarName[1] \in DOMAIN env
    THEN ValueOfText(KindOf[id], env[mfd.EnvVarName[1]])
    ELSE FieldById(id).init

HoldsExpected(sets, env, mfd) ==
    \A id \in BoundFields(mfd) : fields[id] = ExpectedValue(sets, env, mfd, id)

\* C1: after a successful apply every field bound to a merged flag holds the
\* value the arguments give the flag, else the value of the flag's
\* environment variable, else the value the field had when the registry was
\* built; variables of other names have no effect
C1_Precedence ==
    (pc = "applied" /\ applyErr = NoErr) =>
        \A n \in DOMAIN FlagsOf(cmd) :
            HoldsExpected(ArgsRead(cmd, args).sets, envVars, FlagsOf(cmd)[n])

\* C2 as stated: on well-formed input apply returns the required-flag error
\* naming f if and only if f is required, has an empty default-value string,
\* no environment entry and is not set by the arguments
C2_EveryMissingNamed ==
    (pc = "applied" /\ WellFormedInput(cmd, envVars, args)) =>
        \A n \in DOMAIN FlagsOf(cmd) :
            (applyErr = MissingErr(FlagsOf(cmd)[n].Name))
                <=> Unprovided(cmd, envVars, args, FlagsOf(cmd)[n])

\* C2: on well-formed input apply succeeds when every required flag with an
\* empty default-value string has an environment entry or is set by the
\* arguments, and otherwise returns the required-flag error naming the first
\* such flag in ascending name order; a required flag with a non-empty
\* default-value string is never named
C2_FirstMissingNamed ==
    (pc = "applied" /\ WellFormedInput(cmd, envVars, args)) =>
        /\ applyErr =
                IF UnprovidedFlags(cmd, envVars, args) = {} THEN NoErr
                ELSE MissingErr(FirstByName(cmd, UnprovidedFlags(cmd, envVars, args)).Name)
        /\ \A n \in DOMAIN FlagsOf(cmd) :
                (mergedIsRequired(FlagsOf(cmd)[n]) /\ FlagsOf(cmd)[n].DefaultValue # <<>>)
                    => applyErr # MissingErr(FlagsOf(cmd)[n].Name)

\* Two required flags are unprovided and the first by name is the one named
C2_Witness ==
    /\ pc = "applied"
    /\ WellFormedInput(cmd, envVars, args)
    /\ Cardinality(UnprovidedFlags(cmd, envVars, args)) = 2
    /\ applyErr = MissingErr(<<"m", "y", "-", "f">>)

-----------------------------------------------------------------------------
(* Claims about ExecuteWithContext *)

IsRootRun == pc # "start" /\ ParentOf[given] = None

\* Flag application succeeded and help was not asked for
HooksPhase == IsRootRun /\ applyErr = NoErr /\ ~fields[HelpFieldOf[cmd]]

CallsOf(kind) == { n \in DOMAIN calls : calls[n].kind = kind }

Depth(c) == Len(getChain(c))

InChain(c, of) == \E n \in DOMAIN getChain(of) : getChain(of)[n] = c

\* C3 as stated: a failed apply runs nothing, writes the error line and the
\* usage line and exits with the misconfiguration code
C3_AlwaysMisconfiguration ==
    (IsRootRun /\ applyErr # NoErr) =>
        /\ pc = "done"
        /\ calls = <<>>
        /\ out = << ErrorLine(cmd, applyErr), Rendered("usage line", cmd) >>
        /\ exitCode = ExitCodeMisconfiguration

\* C3: a failed apply runs no hook and no action and writes the error line;
\* then the usage line is written and the exit code is the misconfiguration
\* code, unless rendering the usage line fails, and then the rendering error
\* is written and the exit code is the generic error code
C3_FailedApplyStops ==
    (IsRootRun /\ applyErr # NoErr) =>
        /\ pc = "done"
        /\ calls = <<>>
        /\ Len(out) = 2
        /\ out[1] = ErrorLine(cmd, applyErr)
        /\ IF NewWrappingWriterFails(width)
           THEN out[2] = Rendered("render error", cmd) /\ exitCode = ExitCodeError
           ELSE out[2] = Rendered("usage line", cmd) /\ exitCode = ExitCodeMisconfiguration

\* A required flag is missing and the usage line cannot be rendered
C3_Witness ==
    /\ pc = "done"
    /\ ParentOf[given] = None
    /\ applyErr.type = "ErrRequiredFlagMissing"
    /\ NewWrappingWriterFails(width)
    /\ exitCode = ExitCodeError

\* A value flag of some command written without its value
IsBareValueFlag(t) ==
    /\ IsFlagToken(t)
    /\ ~HasEq(t)
    /\ \E c \in Commands : \E n \in DOMAIN FlagsOf(c) :
            FlagsOf(c)[n].Name = TokenName(t) /\ FlagsOf(c)[n].HasValue

\* The argument list with every two-token value flag before the separator
\* written as one token
RECURSIVE joinTwoToken(_)
joinTwoToken(argv) ==
    IF argv = <<>> THEN <<>>
    ELSE IF Head(argv) = <<"-", "-">> THEN argv
    ELSE IF IsBareValueFlag(Head(argv)) /\ Len(argv) >= 2
    THEN << Head(argv) \o <<"=">> \o argv[2] >> \o joinTwoToken(Tail(Tail(argv)))
    ELSE << Head(argv) >> \o joinTwoToken(Tail(argv))

\* What the splitter and apply make of an argument list
applyInferred(inferred, env) ==
    [cmd |-> inferred.cmd,
     r |-> apply(inferred.cmd, env, appliedArgs(inferred), InitialFields, InitialPosTargets)]

execResult(root, argv, env) == applyInferred(inferCommandAndArgs(root, argv), env)

SameOutcome(res) ==
    /\ cmd = res.cmd
    /\ applyErr = res.r.err
    /\ fields = res.r.fields
    /\ posTargets = res.r.posTargets

\* C4: the outcome of an argument list is the outcome of the same list with
\* its two-token value flags written as single tokens
C4_TwoTokenForm ==
    IsRootRun => SameOutcome(execResult(given, joinTwoToken(args), envVars))

HasSeparator(argv) == \E n \in DOMAIN argv : argv[n] = <<"-", "-">>

SeparatorPos(argv) ==
    CHOOSE n \in DOMAIN argv :
        argv[n] = <<"-", "-">> /\ \A m \in 1..(n - 1) : argv[m] # <<"-", "-">>

BeforeSeparator(argv) == SubSeq(argv, 1, SeparatorPos(argv) - 1)

AfterSeparator(argv) == SubSeq(argv, SeparatorPos(argv) + 1, Len(argv))

\* The tokens after the separator change neither the command, nor the error,
\* nor a flag, and follow the other positionals in every target of the chain
SeparatedOutcome(head, tail) ==
    /\ cmd = head.cmd
    /\ applyErr = head.r.err
    /\ fields = head.r.fields
    /\ applyErr = NoErr =>
            \A t \in ChainTargets[cmd] :
                /\ posTargets[t].assigned
                /\ posTargets[t].value = head.r.posTargets[t].value \o tail

\* C5: every token after the first -- is a positional argument, in order,
\* and is read neither as a flag nor as a sub-command name
C5_SeparatorForcesPositionals ==
    (IsRootRun /\ HasSeparator(args)) =>
        SeparatedOutcome(execResult(given, BeforeSeparator(args), envVars),
                         AfterSeparator(args))



\* The tokens of an argument list the splitter hands over as flags
FlagTokens(argv) ==
    { argv[n] : n \in { m \in DOMAIN argv :
                            /\ HasPrefix(argv[m], <<"-">>)
                            /\ argv[m] # <<"-", "-">>
                            /\ \A l \in 1..(m - 1) : argv[l] # <<"-", "-">> } }

\* Every flag token names a flag of c and carries its value, if it takes one
KnownFlagTokens(c, argv) ==
    \A t \in FlagTokens(argv) :
        /\ IsFlagToken(t)
        /\ HasName(FlagsOf(c), TokenName(t))
        /\ (FlagNamed(c, TokenName(t)).HasValue => HasEq(t))

HelpAsked(c, env, argv) ==
    /\ Tok_help \in FlagTokens(argv)
    /\ KnownFlagTokens(c, argv)
    /\ EnvWellFormed(c, env)

\* C6: an argument list with --help and no unknown flag or malformed value
\* renders the help screen, exits with the success code and runs nothing
\* (stated for a terminal the help screen can be rendered on)
C6_HelpAlwaysShown ==
    (pc = "done" /\ ParentOf[given] = None /\ HelpAsked(cmd, envVars, args)
        /\ ~NewWrappingWriterFails(width)) =>
        /\ out = << Rendered("help", cmd) >>
        /\ exitCode = ExitCodeSuccess
        /\ calls = <<>>

RenderFailed == \E n \in DOMAIN out : out[n].kind = "render error"

SomeCallFailed == \E n \in DOMAIN calls : calls[n].failed

\* C7: at the return of ExecuteWithContext the misconfiguration code is
\* returned only when flag parsing or required-flag validation failed, the
\* generic error code only when a hook, the action or a rendering step failed
\* or the command is not the root, and the success code only when none of
\* these happened
C7_ExitCodes ==
    pc = "done" =>
        /\ exitCode = ExitCodeMisconfiguration => applyErr # NoErr
        /\ exitCode = ExitCodeError =>
                (SomeCallFailed \/ RenderFailed \/ ParentOf[given] # None)
        /\ exitCode = ExitCodeSuccess =>
                (applyErr = NoErr /\ ~SomeCallFailed /\ ~RenderFailed
                    /\ ParentOf[given] = None)

\* Call m comes before call n in chain order: an ancestor's hook first, and
\* within a command the hook registered first
ChainOrdered(m, n) ==
    \/ Depth(calls[m].cmd) < Depth(calls[n].cmd)
    \/ calls[m].cmd = calls[n].cmd /\ calls[m].idx < calls[n].idx

NumHooksOfChain(num, c) ==
    Cardinality({ h \in Commands \X (1..3) : InChain(h[1], c) /\ h[2] <= num[h[1]] })

\* C8: in the hooks phase the pre-run calls are hooks of the chain in chain
\* order, each at most once; the action is called only after every pre-run
\* hook of the chain returned without error; after a pre-run error there is
\* no later pre-run call and no action call, and the exit code is the generic
\* error code
C8_PreRunOrder ==
    HooksPhase =>
        /\ \A n \in CallsOf("preRun") :
                /\ InChain(calls[n].cmd, cmd)
                /\ calls[n].idx \in 1..NumPreRunHooks[calls[n].cmd]
                /\ \A m \in CallsOf("preRun") : m < n => ChainOrdered(m, n)
                /\ calls[n].failed =>
                        /\ exitCode = ExitCodeError
                        /\ CallsOf("action") = {}
                        /\ \A m \in CallsOf("preRun") : m <= n
        /\ \A n \in CallsOf("action") :
                /\ \A m \in CallsOf("preRun") : m < n
                /\ Cardinality(CallsOf("preRun")) = NumHooksOfChain(NumPreRunHooks, cmd)
        /\ (pc \in {"action", "postRun", "done"} /\ ~(\E n \in CallsOf("preRun") : calls[n].failed))
                => Cardinality(CallsOf("preRun")) = NumHooksOfChain(NumPreRunHooks, cmd)

\* All three pre-run hooks of the chain of sub ran, in order, before its action
C8_Witness ==
    /\ pc = "done"
    /\ cmd = "sub"
    /\ Len(calls) >= 4
    /\ calls[1].kind = "preRun" /\ calls[1].cmd = "cmd" /\ calls[1].idx = 1
    /\ calls[2].kind = "preRun" /\ calls[2].cmd = "cmd" /\ calls[2].idx = 2
    /\ calls[3].kind = "preRun" /\ calls[3].cmd = "sub"
    /\ calls[4].kind = "action"

\* Call m comes before call n in reverse chain order
ReverseChainOrdered(m, n) ==
    \/ Depth(calls[m].cmd) > Depth(calls[n].cmd)
    \/ calls[m].cmd = calls[n].cmd /\ calls[m].idx > calls[n].idx

\* C9: in the hooks phase the post-run calls are hooks of the chain in
\* reverse chain order, each at most once, all after the action and the
\* pre-run calls; at the return every post-run hook of the chain has been
\* called, whatever the action or an earlier post-run hook returned; and a
\* post-run error leaves the generic error code as the exit code
C9_PostRunOrder ==
    HooksPhase =>
        /\ \A n \in CallsOf("postRun") :
                /\ InChain(calls[n].cmd, cmd)
                /\ calls[n].idx \in 1..NumPostRunHooks[calls[n].cmd]
                /\ \A m \in CallsOf("postRun") : m < n => ReverseChainOrdered(m, n)
                /\ \A m \in CallsOf("action") \cup CallsOf("preRun") : m < n
                /\ calls[n].failed => exitCode = ExitCodeError
        /\ pc = "done" =>
                Cardinality(CallsOf("postRun")) = NumHooksOfChain(NumPostRunHooks, cmd)

\* The action of sub failed, the first post-run hook called failed too, and
\* all three post-run hooks of the chain were called
C9_Witness ==
    /\ pc = "done"
    /\ cmd = "sub"
    /\ \E n \in CallsOf("action") : calls[n].failed
    /\ Cardinality(CallsOf("postRun")) = 3
    /\ \E n \in CallsOf("postRun") :
            /\ calls[n].failed
            /\ calls[n].cmd = "sub"
            /\ calls[n].idx = 2
            /\ \A m \in CallsOf("postRun") : n <= m

\* C10: the action is called with the context handed to ExecuteWithContext,
\* every post-run hook with a context that is not that context
C10_PostRunFreshContext ==
    /\ \A n \in CallsOf("action") : calls[n].ctx = ExecutionCtx
    /\ \A n \in CallsOf("postRun") : calls[n].ctx # ExecutionCtx

-----------------------------------------------------------------------------
(* Positional arguments *)

\* The arguments left when the flags at the head of an argument list are
\* read: reading stops at the first token that is no flag, and a -- that
\* stops it is not itself an argument
RECURSIVE remainingArgs(_, _)

remainingKnown(c, argv, mfd) ==
    IF HasEq(Head(argv)) \/ ~mfd.HasValue THEN remainingArgs(c, Tail(argv))
    ELSE IF Len(argv) < 2 THEN <<>>
    ELSE remainingArgs(c, Tail(Tail(argv)))

remainingArgs(c, argv) ==
    IF argv = <<>> THEN <<>>
    ELSE IF Head(argv) = <<"-", "-">> THEN Tail(argv)
    ELSE IF ~IsFlagToken(Head(argv)) THEN argv
    ELSE IF ~HasName(FlagsOf(c), TokenName(Head(argv))) THEN <<>>
    ELSE remainingKnown(c, argv, FlagNamed(c, TokenName(Head(argv))))

\* The positional targets registered for c and for its ancestors
TargetsOfChain(c) ==
    { t \in DOMAIN InitialPosTargets :
        \E a \in Commands :
            /\ InChain(a, c)
            /\ \E n \in DOMAIN Registry[a].positionalsTargets :
                    Registry[a].positionalsTargets[n] = t }

\* C11: after a successful apply every positional target of the command's
\* registry and of every ancestor registry holds the arguments that remain
\* after the flags are read, in their order
C11_PositionalsBroadcast ==
    (pc = "applied" /\ applyErr = NoErr) =>
        \A t \in TargetsOfChain(cmd) :
            /\ posTargets[t].assigned
            /\ posTargets[t].value = remainingArgs(cmd, args)

\* apply on sub left two arguments in the target of sub and in that of cmd
C11_Witness ==
    /\ pc = "applied"
    /\ applyErr = NoErr
    /\ cmd = "sub"
    /\ Len(remainingArgs(cmd, args)) = 2
    /\ posTargets["sub.act.Args"].value = remainingArgs(cmd, args)
    /\ posTargets["cmd.post1.Args"].value = remainingArgs(cmd, args)

-----------------------------------------------------------------------------
(* Round trip of defaults *)

\* C12: apply with no environment and no arguments leaves every field that
\* is registered as a flag of the command equal to the value it held when
\* the registry was built
C12_RoundTrip ==
    (pc = "applied" /\ args = <<>> /\ envVars = <<>>) =>
        \A n \in DOMAIN FlagsOf(cmd) :
            \A id \in BoundFields(FlagsOf(cmd)[n]) : fields[id] = FieldById(id).init

-----------------------------------------------------------------------------
(* Inheritance *)

DescriptorsOf(a) == { Registry[a].flags[n] : n \in DOMAIN Registry[a].flags }

StrictAncestors(c) == { a \in Commands : InChain(a, c) /\ a # c }

\* The descriptors of the ancestors of c that are not inherited
HiddenDescriptors(c) ==
    UNION { { fd \in DescriptorsOf(a) : ~fd.Inherited } : a \in StrictAncestors(c) }

\* The descriptors c declares and those its ancestors declare as inherited
DeclaredFor(c) ==
    DescriptorsOf(c)
        \cup UNION { { fd \in DescriptorsOf(a) : fd.Inherited } : a \in StrictAncestors(c) }

TargetsOf(fds) == UNION { { fd.Targets[t] : t \in DOMAIN fd.Targets } : fd \in fds }

\* C13: the merged flags of a command are named exactly as the descriptors
\* the command declares or an ancestor declares as inherited, each bound to
\* exactly the fields of those descriptors; and apply on the command leaves
\* the fields of the ancestors' descriptors that are not inherited as they were
C13_InheritedOnly ==
    pc = "applied" =>
        /\ { FlagsOf(cmd)[n].Name : n \in DOMAIN FlagsOf(cmd) }
                = { fd.Name : fd \in DeclaredFor(cmd) }
        /\ \A n \in DOMAIN FlagsOf(cmd) :
                BoundFields(FlagsOf(cmd)[n])
                    = TargetsOf({ fd \in DeclaredFor(cmd) : fd.Name = FlagsOf(cmd)[n].Name })
        /\ \A id \in TargetsOf(HiddenDescriptors(cmd)) : fields[id] = FieldById(id).init

\* apply on sub wrote the field of the inherited flag --a of cmd and left
\* the field of the flag --v of cmd, which is not inherited and whose name
\* sub declares too
C13_Witness ==
    /\ pc = "applied"
    /\ cmd = "sub"
    /\ applyErr = NoErr
    /\ "cmd.pre1.V" \in TargetsOf(HiddenDescriptors(cmd))
    /\ fields["cmd.pre1.V"] = TRUE
    /\ fields["cmd.pre1.A"] # FieldById("cmd.pre1.A").init
    /\ fields["cmd.pre1.A"] = fields["sub.act.A"]
    /\ HasName(FlagsOf(cmd), <<"v">>)

-----------------------------------------------------------------------------
(* One value for all the fields of a flag *)

\* The value of the winning text given to mfd, for field id: the last one the
\* arguments state, else the environment variable's, else the one of the
\* default-value string; the field's own value when no text is given
SuppliedValue(sets, env, mfd, id) ==
    IF ArgsSet(sets, mfd.Name)
    THEN (IF LastSet(sets, mfd.Name).stated
          THEN ValueOfText(KindOf[id], LastSet(sets, mfd.Name).value)
          ELSE fields[id])
    ELSE IF mfd.EnvVarName[1] \in DOMAIN env
    THEN ValueOfText(KindOf[id], env[mfd.EnvVarName[1]])
    ELSE IF mfd.DefaultValue # <<>>
    THEN ValueOfText(KindOf[id], mfd.DefaultValue)
    ELSE fields[id]

-----------------------------------------------------------------------------
(* Unknown flags *)

NoUnknown == [found |-> FALSE, name |-> <<>>]

\* The first flag token of the argument list, of those before the first
\* token that is no flag, whose name is no merged flag of c
RECURSIVE firstUnknownToken(_, _)

firstUnknownToken(c, argv) ==
    IF argv = <<>> THEN NoUnknown
    ELSE IF ~IsFlagToken(Head(argv)) THEN NoUnknown
    ELSE IF ~HasName(FlagsOf(c), TokenName(Head(argv)))
    THEN [found |-> TRUE, name |-> TokenName(Head(argv))]
    ELSE firstUnknownToken(c, Tail(argv))

\* The first unknown flag the scanner reads as a flag: a value flag written
\* without '=' takes the token after it as its value, whatever it looks like
RECURSIVE unknownReached(_, _)

unknownAfterKnown(c, argv, mfd) ==
    IF HasEq(Head(argv)) \/ ~mfd.HasValue THEN unknownReached(c, Tail(argv))
    ELSE IF Len(argv) < 2 THEN NoUnknown
    ELSE unknownReached(c, Tail(Tail(argv)))

unknownReached(c, argv) ==
    IF argv = <<>> THEN NoUnknown
    ELSE IF ~IsFlagToken(Head(argv)) THEN NoUnknown
    ELSE IF ~HasName(FlagsOf(c), TokenName(Head(argv)))
    THEN [found |-> TRUE, name |-> TokenName(Head(argv))]
    ELSE unknownAfterKnown(c, argv, FlagNamed(c, TokenName(Head(argv))))

NoTargetAssigned == \A t \in DOMAIN posTargets : ~posTargets[t].assigned

\* C17 as stated: when a flag token before the first token that is no flag
\* names no merged flag, apply returns the unknown-flag error naming it and
\* assigns no positional-argument target
C17_UnknownFlagAlways ==
    (pc = "applied" /\ firstUnknownToken(cmd, args).found) =>
        /\ applyErr = Err("ErrUnknownFlag", firstUnknownToken(cmd, args).name, <<>>)
        /\ NoTargetAssigned

\* The inputs for which the unknown-flag error is returned: no environment
\* variable is malformed and the scanner reads as a flag a token that names
\* no merged flag and is not h or help
UnknownFlagReported ==
    (/\ pc = "applied"
     /\ EnvWellFormed(cmd, envVars)
     /\ unknownReached(cmd, args).found
     /\ unknownReached(cmd, args).name \notin HelpNames) =>
        /\ applyErr = Err("ErrUnknownFlag", unknownReached(cmd, args).name, <<>>)
        /\ NoTargetAssigned

-----------------------------------------------------------------------------
(* WrappingWriter *)

\* Variant: the line is broken before its last rune, whitespace or not
scanBack_anywhere(w, r, j) ==
    [w EXCEPT !.data = SubSeq(@, 1, j - 1) \o <<"\n">> \o w.linePrefix
                        \o SubSeq(@, j, Len(@)) \o <<r>>]

\* The loop of Write that looks back from data[j] for a place to break the
\* line before writing r; the rune is not written when the loop ends
\* without a break
RECURSIVE scanBack(_, _, _)
scanBack(w, r, j) ==
    IF j < 1 THEN w
    ELSE IF w.data[j] = "\n" THEN [w EXCEPT !.data = Append(@, r)]
    ELSE IF Len(w.data) - (j - 1) + Len(w.linePrefix) >= w.width
    THEN [w EXCEPT !.data = Append(@, r)]
    ELSE IF w.data[j] = " "
    THEN [w EXCEPT
            !.data = SubSeq(@, 1, j) \o <<"\n">> \o w.linePrefix
                        \o SubSeq(@, j + 1, Len(@)) \o <<r>>,
            !.remainingToNextNewLine =
                IF w.width - Len(w.linePrefix) - (Len(w.data) - j) - 1 < 0 THEN 0
                ELSE w.width - Len(w.linePrefix) - (Len(w.data) - j) - 1]
    ELSE scanBack(w, r, j - 1)

\* The body of the loop of Write for the rune r at index i (from 0) of p
writeRune(w, r, i) ==
    IF r = "\n"
    THEN [w EXCEPT
            !.data = (IF Len(@) = 0 \/ (i > 0 /\ @[Len(@)] = "\n")
                      THEN @ \o w.linePrefix ELSE @) \o <<r>>,
            !.remainingToNextNewLine = w.width]
    ELSE IF w.remainingToNextNewLine = 0
    THEN scanBack(w, r, Len(w.data))
    ELSE IF Len(w.data) = 0 \/ w.data[Len(w.data)] = "\n"
    THEN [w EXCEPT
            !.data = @ \o w.linePrefix \o <<r>>,
            !.remainingToNextNewLine = @ - Len(w.linePrefix) - 1]
    ELSE [w EXCEPT
            !.data = Append(@, r),
            !.remainingToNextNewLine = @ - 1]

\* WrappingWriter.Write(p), from the rune at index i
RECURSIVE writeRunes(_, _, _)
writeRunes(w, p, i) ==
    IF i >= Len(p) THEN w
    ELSE writeRunes(writeRune(w, p[i + 1], i), p, i + 1)

-----------------------------------------------------------------------------
(* Functions of the library called directly *)

execVars == <<given, args, envVars, width, fields, posTargets, cmd, applyErr,
              exitCode, actionError, out, calls, k>>

\* No command is being applied or executed
NoExecution ==
    /\ given = "cmd"
    /\ args = <<>>
    /\ envVars = <<>>
    /\ width = 80
    /\ fields = InitialFields
    /\ posTargets = InitialPosTargets
    /\ cmd = "cmd"
    /\ applyErr = NoErr
    /\ exitCode = ExitCodeSuccess
    /\ actionError = NoErr
    /\ out = <<>>
    /\ calls = <<>>
    /\ k = 0

\* Descriptors of one name, with every attribute unset or set to one of two values
SameNameFlagDefs ==
    [Name : { <<"n">> },
     EnvVarName : { None, Some(<<"E">>), Some(<<"F">>) },
     HasValue : BOOLEAN,
     ValueName : { None, Some(<<"V">>), Some(<<"W">>) },
     Description : { None, Some(<<"d">>), Some(<<"e">>) },
     Required : { None, Some(TRUE), Some(FALSE) },
     DefaultValue : { <<>>, <<"x">> },
     Inherited : { TRUE },
     Targets : { <<"t">> }]

MaxUsageFlags == 2
MaxWrites == 2
MaxRunes == 3
MaxFieldName == 4
MaxSplitArgs == 5
MaxMergeFlags == 3
MaxLiteral == 5
MaxFields == 3

\* Descriptors of three names that differ in what the usage line shows
UsageFlagDefs ==
    [Name : { <<"a">>, <<"a", "b">>, <<"b">> },
     EnvVarName : { None },
     HasValue : BOOLEAN,
     ValueName : { None, Some(<<"N">>) },
     Description : { None },
     Required : { None, Some(TRUE), Some(FALSE) },
     DefaultValue : { <<>> },
     Inherited : { TRUE },
     Targets : { <<"t">> }]

\* Descriptors of three names that differ in what isLessThan compares and in
\* what addFlagDef rejects
MergeFlagDefs ==
    [Name : { <<"a">>, <<"a", "b">>, <<"b">> },
     EnvVarName : { None },
     HasValue : { TRUE },
     ValueName : { None },
     Description : { None },
     Required : { None, Some(TRUE), Some(FALSE) },
     DefaultValue : { <<>> },
     Inherited : BOOLEAN,
     Targets : { <<"t">> }]

\* A string field tagged name:"x"
FieldX == Field(<<>>, <<"X">>, "string", [NoTags EXCEPT !.name = Some(<<"x">>)], <<>>)

ArgsField ==
    Field(<<>>, <<"A", "r", "g", "s">>, "strings",
          [NoTags EXCEPT !.args = Some(FormatBool(TRUE))], <<>>)

\* Fields of a configuration struct: FieldX and the fields that differ from
\* it in one tag, in the kind, in the value or in the name; a positional
\* target; a nested struct with a positional target
FieldTemplates ==
    { FieldX,
      [FieldX EXCEPT !.tags.env = Some(<<"e">>)],
      [FieldX EXCEPT !.tags.env = Some(<<"f">>)],
      [FieldX EXCEPT !.tags.valueName = Some(<<"N">>)],
      [FieldX EXCEPT !.tags.valueName = Some(<<"M">>)],
      [FieldX EXCEPT !.tags.desc = Some(<<"c">>)],
      [FieldX EXCEPT !.tags.desc = Some(<<"d">>)],
      [FieldX EXCEPT !.tags.required = Some(FormatBool(TRUE))],
      [FieldX EXCEPT !.tags.required = Some(FormatBool(FALSE))],
      [FieldX EXCEPT !.tags.inherited = Some(FormatBool(TRUE))],
      [FieldX EXCEPT !.kind = "bool", !.init = FALSE],
      [FieldX EXCEPT !.init = <<"d">>],
      [FieldX EXCEPT !.tags.name = Some(<<"y">>)],
      ArgsField,
      Field(<<>>, <<"S">>, "struct", NoTags, << ArgsField >>) }

\* The fields of one struct, field i identified by <<i, 0>> and field j of
\* its nested struct by <<i, j>>
WithIds(config) ==
    [i \in DOMAIN config |->
        IF config[i].kind = "struct"
        THEN [config[i] EXCEPT !.id = <<i, 0>>,
                               !.init = [j \in DOMAIN @ |-> [@[j] EXCEPT !.id = <<i, j>>]]]
        ELSE [config[i] EXCEPT !.id = <<i, 0>>]]

\* addFlagDef: a merged flag seeded from a, and b to add to it.
\* newFlagSet: the fields of the one configuration struct.
\* getMergedFlagDefs: the descriptors the first loop visits, in visiting order.
\* setValue: the kind of the one target of flag n, which holds 0, and the text.
\* Write: the width and line prefix of a new writer, and the texts written
\* to it in turn.
\* SetLinePrefix: the same with two texts, and the line prefix set between
\* the two.
\* fieldNameToFlagName: the name of a struct field.
\* inferCommandAndArgs: the root command and the argument list.
\* printFlagsSingleLine: the descriptors getMergedFlagDefs visits, in visiting
\* order, and the number of positional-argument targets of the registry
DirectCalls ==
    [fn : { "addFlagDef" }, a : SameNameFlagDefs, b : SameNameFlagDefs]
        \cup [fn : { "printFlagsSingleLine" },
              flags : ArgLists(UsageFlagDefs, MaxUsageFlags),
              positionalsTargets : 0..1]
        \cup [fn : { "getMergedFlagDefs" },
              flags : ArgLists(MergeFlagDefs, MaxMergeFlags)]
        \cup [fn : { "newFlagSet" }, config : ArgLists(FieldTemplates, MaxFields)]
        \cup [fn : { "setValue" },
              kind : SignedKinds \cup UnsignedKinds,
              sv : ArgLists({ "-", "1", "2", "3", "5", "6", "7", "8" }, MaxLiteral)]
        \cup [fn : { "Write" },
              width : 0..3,
              linePrefix : { <<>>, <<"P">> },
              inputs : ArgLists(ArgLists({ "a", " ", "\n" }, MaxRunes), MaxWrites)]
        \cup [fn : { "SetLinePrefix" },
              width : 2..3,
              linePrefix : { <<>>, <<"P">> },
              nextPrefix : { <<>>, <<"P">> },
              inputs : [1..2 -> ArgLists({ "a", " ", "\n" }, MaxRunes)]]
        \cup [fn : { "inferCommandAndArgs" },
              root : { "cmd" },
              args : ArgLists({ Tok_sub, Tok_a, Tok_1, Tok_dashes, <<"-">> }, MaxSplitArgs)]
        \cup [fn : { "fieldNameToFlagName" },
              fieldName : ArgLists({ "a", "b", "A", "B" }, MaxFieldName) \ { <<>> }]

InitCalls ==
    /\ pc = "call"
    /\ callArgs \in DirectCalls
    /\ returned = <<>>
    /\ NoExecution

\* addFlagDef(b) on the merged flag seeded from a
MergeAB ==
    /\ pc = "call"
    /\ callArgs.fn = "addFlagDef"
    /\ returned' = [ab |-> addFlagDef(newMergedFlagDef(callArgs.a), callArgs.b)]
    /\ pc' = "mergedAB"
    /\ UNCHANGED <<callArgs, execVars>>

\* addFlagDef(a) on the merged flag seeded from b
MergeBA ==
    /\ pc = "mergedAB"
    /\ returned' = [ab |-> returned.ab,
                    ba |-> addFlagDef(newMergedFlagDef(callArgs.b), callArgs.a)]
    /\ pc' = "merged"
    /\ UNCHANGED <<callArgs, execVars>>

PrintFlagsSingleLine ==
    /\ pc = "call"
    /\ callArgs.fn = "printFlagsSingleLine"
    /\ returned' = printFlagsSingleLine(finishMerge(foldFlagDefs(<<>>, callArgs.flags)),
                                        callArgs.positionalsTargets)
    /\ pc' = "returned"
    /\ UNCHANGED <<callArgs, execVars>>

\* getMergedFlagDefs, the range over its map taking any order
GetMergedFlagDefs ==
    /\ pc = "call"
    /\ callArgs.fn = "getMergedFlagDefs"
    /\ \E order \in MapOrders(foldFlagDefs(<<>>, callArgs.flags)) :
            returned' = mergedInOrder(foldFlagDefs(<<>>, callArgs.flags), order)
    /\ pc' = "returned"
    /\ UNCHANGED <<callArgs, execVars>>

\* newFlagSet(nil, config)
NewFlagSet ==
    /\ pc = "call"
    /\ callArgs.fn = "newFlagSet"
    /\ returned' = newFlagSet(<< WithIds(callArgs.config) >>)
    /\ pc' = "returned"
    /\ UNCHANGED <<callArgs, execVars>>

\* flagDef.setValue(sv) of flag n on its one target t
SetValue ==
    /\ pc = "call"
    /\ callArgs.fn = "setValue"
    /\ returned' = setTarget([t \in { "t" } |-> 0], <<"n">>, <<"t">>, callArgs.sv,
                             coerce(callArgs.kind, callArgs.sv))
    /\ pc' = "returned"
    /\ UNCHANGED <<callArgs, execVars>>

\* NewWrappingWriter(width), then SetLinePrefix(linePrefix)
NewWriter ==
    /\ pc = "call"
    /\ callArgs.fn \in { "Write", "SetLinePrefix" }
    /\ returned' = [failed |-> NewWrappingWriterFails(callArgs.width)
                                \/ Len(callArgs.linePrefix) >= callArgs.width,
                    written |-> 0,
                    prefixes |-> 1,
                    w |-> [data |-> <<>>, width |-> callArgs.width,
                           remainingToNextNewLine |-> callArgs.width,
                           linePrefix |-> callArgs.linePrefix]]
    /\ pc' = IF NewWrappingWriterFails(callArgs.width)
                \/ Len(callArgs.linePrefix) >= callArgs.width
                \/ callArgs.inputs = <<>>
             THEN "returned" ELSE "writing"
    /\ UNCHANGED <<callArgs, execVars>>

\* SetLinePrefix(nextPrefix) after the first Write: a prefix as long as the
\* width is rejected and the writer keeps its prefix
SetLinePrefix ==
    /\ pc = "writing"
    /\ callArgs.fn = "SetLinePrefix"
    /\ returned.written = 1
    /\ returned.prefixes = 1
    /\ returned' = [returned EXCEPT
                        !.prefixes = 2,
                        !.w.linePrefix = IF Len(callArgs.nextPrefix) >= callArgs.width
                                         THEN @ ELSE callArgs.nextPrefix]
    /\ UNCHANGED <<pc, callArgs, execVars>>

\* The next Write on the writer
Write ==
    /\ pc = "writing"
    /\ callArgs.fn = "SetLinePrefix" => returned.written + 1 = returned.prefixes
    /\ returned' = [returned EXCEPT
                        !.w = writeRunes(@, callArgs.inputs[returned.written + 1], 0),
                        !.written = @ + 1]
    /\ pc' = IF returned.written + 1 = Len(callArgs.inputs) THEN "returned" ELSE "writing"
    /\ UNCHANGED <<callArgs, execVars>>

\* The flag name and the environment variable name readFlagFromField derives
\* from the name of a field
FieldNames ==
    /\ pc = "call"
    /\ callArgs.fn = "fieldNameToFlagName"
    /\ returned' = [flagName |-> fieldNameToFlagName(callArgs.fieldName),
                    envVarName |-> fieldNameToEnvVarNameFrom(callArgs.fieldName, 1, <<>>)]
    /\ pc' = "returned"
    /\ UNCHANGED <<callArgs, execVars>>

InferCommandAndArgs ==
    /\ pc = "call"
    /\ callArgs.fn = "inferCommandAndArgs"
    /\ returned' = inferCommandAndArgs(callArgs.root, callArgs.args)
    /\ pc' = "returned"
    /\ UNCHANGED <<callArgs, execVars>>

NextCalls ==
    \/ FieldNames
    \/ GetMergedFlagDefs
    \/ NewFlagSet
    \/ SetValue
    \/ InferCommandAndArgs
    \/ MergeAB
    \/ MergeBA
    \/ PrintFlagsSingleLine
    \/ NewWriter
    \/ SetLinePrefix
    \/ Write

SpecCalls == InitCalls /\ [][NextCalls]_vars

\* Both set, to different values
SetAndDiffer(mine, theirs) == mine # None /\ theirs # None /\ mine # theirs

\* The attributes of two descriptors of one name that disagree
Disagree(a, b) ==
    \/ SetAndDiffer(a.EnvVarName, b.EnvVarName)
    \/ SetAndDiffer(a.ValueName, b.ValueName)
    \/ SetAndDiffer(a.Description, b.Description)
    \/ SetAndDiffer(a.Required, b.Required)
    \/ a.HasValue # b.HasValue
    \/ a.DefaultValue # b.DefaultValue

\* An attribute after a merge: the accumulator's, or the incoming one's when
\* the accumulator's was unset
Filled(mine, theirs) == IF mine = None THEN theirs ELSE mine

\* C14: addFlagDef fails and leaves the descriptor list as it was when an
\* attribute set on both sides differs or the has-value or default-value
\* differ; when it succeeds every attribute unset in the accumulator has the
\* incoming descriptor's value and the descriptor is in the list
C14_ConflictsRejected ==
    pc \in {"mergedAB", "merged"} =>
        /\ Disagree(callArgs.a, callArgs.b) =>
                /\ returned.ab.failed
                /\ returned.ab.mfd.flagDefs = << callArgs.a >>
        /\ ~returned.ab.failed =>
                /\ returned.ab.mfd.flagDefs = << callArgs.a, callArgs.b >>
                /\ returned.ab.mfd.EnvVarName
                        = Filled(callArgs.a.EnvVarName, callArgs.b.EnvVarName)
                /\ returned.ab.mfd.ValueName
                        = Filled(callArgs.a.ValueName, callArgs.b.ValueName)
                /\ returned.ab.mfd.Description
                        = Filled(callArgs.a.Description, callArgs.b.Description)
                /\ returned.ab.mfd.Required
                        = Filled(callArgs.a.Required, callArgs.b.Required)

\* The metadata getMergedFlagDefs resolves for a merged flag
ResolvedMetadata(mfd) ==
    << resolveMergedFlagDef(mfd).EnvVarName, resolveMergedFlagDef(mfd).ValueName,
       resolveMergedFlagDef(mfd).Description, resolveMergedFlagDef(mfd).Required,
       resolveMergedFlagDef(mfd).DefaultValue >>

\* C15: folding b into the merged flag seeded from a fails exactly when
\* folding a into the one seeded from b fails, and when both succeed the
\* resolved metadata is the same
C15_MergeSymmetric ==
    pc = "merged" =>
        /\ returned.ab.failed <=> returned.ba.failed
        /\ (~returned.ab.failed /\ ~returned.ba.failed) =>
                ResolvedMetadata(returned.ab.mfd) = ResolvedMetadata(returned.ba.mfd)

-----------------------------------------------------------------------------
(* The one-line usage *)

\* The merged flags of the descriptors of a call of printFlagsSingleLine
UsageFlags == finishMerge(foldFlagDefs(<<>>, callArgs.flags)).flags

\* One flag of the usage line
UsageItem(mfd) ==
    IF mfd.Required = Some(TRUE)
    THEN <<"-", "-">> \o mfd.Name
            \o (IF mfd.HasValue THEN <<"=">> \o mfd.ValueName[1] ELSE <<>>)
    ELSE <<"[", "-", "-">> \o mfd.Name
            \o (IF mfd.HasValue THEN <<"=">> \o mfd.ValueName[1] ELSE <<>>) \o <<"]">>

\* The items of a set of merged flags of distinct names, in ascending order
\* of the names
RECURSIVE ItemsAscending(_)

ItemsFrom(S, least) == << UsageItem(least) >> \o ItemsAscending(S \ { least })

ItemsAscending(S) ==
    IF S = {} THEN <<>>
    ELSE ItemsFrom(S, CHOOSE f \in S : \A g \in S : StrCompare(f.Name, g.Name) <= 0)

RECURSIVE JoinSpace(_)
JoinSpace(items) ==
    IF items = <<>> THEN <<>>
    ELSE IF Len(items) = 1 THEN items[1]
    ELSE items[1] \o <<" ">> \o JoinSpace(Tail(items))

ArgsItem == <<"[", "A", "R", "G", "S", ".", ".", ".", "]">>

-----------------------------------------------------------------------------
(* Text that needs no wrapping *)

RECURSIVE Flatten(_)
Flatten(texts) == IF texts = <<>> THEN <<>> ELSE Head(texts) \o Flatten(Tail(texts))

\* The lines of a text: each ends at a newline, the last one at the end of
\* the text when runes follow the last newline
RECURSIVE LinesFrom(_, _)
LinesFrom(text, cur) ==
    IF text = <<>> THEN (IF cur = <<>> THEN <<>> ELSE << [line |-> cur, ended |-> FALSE] >>)
    ELSE IF Head(text) = "\n"
    THEN << [line |-> cur, ended |-> TRUE] >> \o LinesFrom(Tail(text), <<>>)
    ELSE LinesFrom(Tail(text), Append(cur, Head(text)))

LinesOf(text) == LinesFrom(text, <<>>)

\* The lines with the prefix before each
RECURSIVE PrefixedLines(_, _)
PrefixedLines(lines, prefix) ==
    IF lines = <<>> THEN <<>>
    ELSE prefix \o Head(lines).line \o (IF Head(lines).ended THEN <<"\n">> ELSE <<>>)
            \o PrefixedLines(Tail(lines), prefix)

\* Every line with the prefix before it is at most width runes long
FitsWidth(text, prefix, wd) ==
    \A n \in DOMAIN LinesOf(text) : Len(prefix) + Len(LinesOf(text)[n].line) <= wd

WritesDone == pc = "returned" /\ callArgs.fn = "Write" /\ ~returned.failed

\* C19: when every line of the text written, with the prefix before it, is
\* at most width runes long, the writer holds the text with the prefix at the
\* start of each line and nothing else changed
C19_FittingTextUnchanged ==
    (WritesDone /\ FitsWidth(Flatten(callArgs.inputs), callArgs.linePrefix, callArgs.width)) =>
        returned.w.data
            = PrefixedLines(LinesOf(Flatten(callArgs.inputs)), callArgs.linePrefix)
-----------------------------------------------------------------------------
(* Names derived from a field name *)

\* A separator goes before letter i of f: an upper-case letter after a
\* lower-case one, or the last upper-case letter of a run of two or more
\* that a lower-case letter follows
SeparatorBefore(f, i) ==
    /\ i > 1
    /\ IsUpper(f[i])
    /\ \/ IsLower(f[i - 1])
       \/ (IsUpper(f[i - 1]) /\ i < Len(f) /\ IsLower(f[i + 1]))

\* The letters of f from letter i on, all in upper or all in lower case,
\* with sep before the letters that start a segment
RECURSIVE Segmented(_, _, _, _)
Segmented(f, i, sep, upper) ==
    IF i > Len(f) THEN <<>>
    ELSE (IF SeparatorBefore(f, i) THEN <<sep>> ELSE <<>>)
            \o << IF upper THEN ToUpperChar(f[i]) ELSE ToLowerChar(f[i]) >>
            \o Segmented(f, i + 1, sep, upper)

\* C20: the flag name of a field name is its letters in lower case with one
\* '-' before each segment, the environment variable name is the same
\* segments in upper case with '_', and flagNameToEnvVarName of the flag
\* name is the environment variable name
C20_DerivedNames ==
    (pc = "returned" /\ callArgs.fn = "fieldNameToFlagName") =>
        /\ returned.flagName
                = Segmented(callArgs.fieldName, 1, "-", FALSE)
        /\ returned.envVarName
                = Segmented(callArgs.fieldName, 1, "_", TRUE)
        /\ flagNameToEnvVarName(returned.flagName) = returned.envVarName

\* aBBa: a-b-ba and A_B_BA, with both kinds of separator
C20_Witness ==
    /\ pc = "returned"
    /\ callArgs.fn = "fieldNameToFlagName"
    /\ callArgs.fieldName = <<"a", "B", "B", "a">>
    /\ returned = [flagName |-> <<"a", "-", "b", "-", "b", "a">>,
                   envVarName |-> <<"A", "_", "B", "_", "B", "A">>]

-----------------------------------------------------------------------------
(* Post-run hooks after a pre-run error *)

FailedPreRun == { n \in CallsOf("preRun") : calls[n].failed }

\* The post-run hooks of the chain of c, as <<command, index>>
PostRunHooksOf(c) ==
    { h \in Commands \X (1..3) : InChain(h[1], c) /\ h[2] <= NumPostRunHooks[h[1]] }

\* C29: when a pre-run hook returned an error, at the return every post-run
\* hook of every command of the chain has been called exactly once, in reverse
\* chain order, each with that error as the action error and with the generic
\* error code
C29_PostRunAfterPreRunError ==
    (pc = "done" /\ FailedPreRun # {}) =>
        /\ \A h \in PostRunHooksOf(cmd) :
                Cardinality({ n \in CallsOf("postRun") :
                                calls[n].cmd = h[1] /\ calls[n].idx = h[2] }) = 1
        /\ \A n \in CallsOf("postRun") :
                /\ <<calls[n].cmd, calls[n].idx>> \in PostRunHooksOf(cmd)
                /\ \A m \in CallsOf("postRun") : m < n => ReverseChainOrdered(m, n)
                /\ calls[n].exitCode = ExitCodeError
                /\ \A f \in FailedPreRun :
                        calls[n].actionError
                            = HookErr("preRun error", calls[f].cmd, calls[f].idx)

\* The first pre-run hook of cmd failed in a run of sub: no pre-run hook of
\* sub was called, and the two post-run hooks of sub and the one of cmd were
C29_Witness ==
    /\ pc = "done"
    /\ cmd = "sub"
    /\ Cardinality(CallsOf("preRun")) = 1
    /\ calls[1].kind = "preRun" /\ calls[1].cmd = "cmd" /\ calls[1].failed
    /\ Len(calls) = 4
    /\ calls[2].kind = "postRun" /\ calls[2].cmd = "sub" /\ calls[2].idx = 2
    /\ calls[3].kind = "postRun" /\ calls[3].cmd = "sub" /\ calls[3].idx = 1
    /\ calls[4].kind = "postRun" /\ calls[4].cmd = "cmd" /\ calls[4].idx = 1
    /\ calls[4].actionError = HookErr("preRun error", "cmd", 1)

-----------------------------------------------------------------------------
(* The argument splitter *)

\* The index of the first separator of an argument list, or one past its end
FirstSeparator(argv) ==
    IF \E n \in DOMAIN argv : argv[n] = <<"-", "-">>
    THEN CHOOSE n \in DOMAIN argv :
            argv[n] = <<"-", "-">> /\ \A m \in 1..(n - 1) : argv[m] # <<"-", "-">>
    ELSE Len(argv) + 1

StartsWithDash(t) == Len(t) >= 1 /\ t[1] = "-"

IsChildName(c, t) == \E n \in DOMAIN SubCommandsOf[c] : CommandName[SubCommandsOf[c][n]] = t

ChildNamed(c, t) ==
    SubCommandsOf[c][CHOOSE n \in DOMAIN SubCommandsOf[c] : CommandName[SubCommandsOf[c][n]] = t]

\* The descent from command c over the bare tokens before the separator: the
\* command reached and the tokens that name no child of the command reached
\* so far
RECURSIVE Descend(_, _, _)
Descend(c, bare, kept) ==
    IF bare = <<>> THEN [cmd |-> c, kept |-> kept]
    ELSE IF IsChildName(c, Head(bare)) THEN Descend(ChildNamed(c, Head(bare)), Tail(bare), kept)
    ELSE Descend(c, Tail(bare), Append(kept, Head(bare)))

BeforeFirstSeparator(argv) == SubSeq(argv, 1, FirstSeparator(argv) - 1)

AfterFirstSeparator(argv) == SubSeq(argv, FirstSeparator(argv) + 1, Len(argv))

BareTokens(argv) == SelectSeq(BeforeFirstSeparator(argv), LAMBDA t : ~StartsWithDash(t))

-----------------------------------------------------------------------------
(* Wrapping *)

\* The index in data of the first rune of its last line
LineStart(data) ==
    IF \E n \in DOMAIN data : data[n] = "\n"
    THEN 1 + CHOOSE n \in DOMAIN data : data[n] = "\n" /\ \A m \in (n + 1)..Len(data) : data[m] # "\n"
    ELSE 1

SpacesOfLine(data) == { n \in LineStart(data)..Len(data) : data[n] = " " }

LastSpace(data) == CHOOSE n \in SpacesOfLine(data) : \A m \in SpacesOfLine(data) : m <= n

\* The text of the Write call about to be made
NextInput == callArgs.inputs[returned.written + 1]

\* The next Write call writes one rune that is no newline to a writer whose
\* line has no column left and holds a whitespace rune
WritesToFullLine ==
    /\ pc = "writing"
    /\ Len(NextInput) = 1
    /\ NextInput[1] # "\n"
    /\ returned.w.remainingToNextNewLine = 0
    /\ SpacesOfLine(returned.w.data) # {}

\* C26: a rune that is no newline, written when the line has no column left
\* and holds a whitespace rune, breaks the line after its last whitespace
\* rune: a newline and the prefix are put there, the runes after it move to
\* the new line, and the remaining columns are the width less the prefix, the
\* runes moved and the rune written
C26_SplitAtLastWhitespace ==
    [][(WritesToFullLine /\ returned'.written = returned.written + 1) =>
            /\ returned'.w.data
                = SubSeq(returned.w.data, 1, LastSpace(returned.w.data))
                    \o <<"\n">> \o returned.w.linePrefix
                    \o SubSeq(returned.w.data, LastSpace(returned.w.data) + 1,
                              Len(returned.w.data))
                    \o NextInput
            /\ returned'.w.remainingToNextNewLine
                = returned.w.width - Len(returned.w.linePrefix)
                    - (Len(returned.w.data) - LastSpace(returned.w.data)) - 1]_vars

-----------------------------------------------------------------------------
(* Content of the writer *)

NoPrefixRunes(data) == SelectSeq(data, LAMBDA r : r # "P")

\* buf is text with newlines added, each added one after a whitespace rune;
\* prev is the rune of buf before the ones looked at
RECURSIVE IsTextWithBreaks(_, _, _)
IsTextWithBreaks(buf, text, prev) ==
    IF buf = <<>> THEN text = <<>>
    ELSE IF text # <<>> /\ Head(buf) = Head(text)
    THEN IsTextWithBreaks(Tail(buf), Tail(text), Head(buf))
    ELSE /\ Head(buf) = "\n"
         /\ prev = " "
         /\ IsTextWithBreaks(Tail(buf), text, Head(buf))

IsWriterCall == callArgs # <<>> /\ callArgs.fn \in { "Write", "SetLinePrefix" }

\* C27: whatever was written and whichever prefix was set, the buffer without
\* its prefixes is the runes written, in order, with nothing but newlines
\* added, and each added newline follows a whitespace rune
C27_ContentKept ==
    (IsWriterCall /\ pc \in { "writing", "returned" } /\ ~returned.failed) =>
        IsTextWithBreaks(NoPrefixRunes(returned.w.data),
                         Flatten(SubSeq(callArgs.inputs, 1, returned.written)), "")

\* aa, longer than the width 2 less the prefix P, is on one line, and the
\* line a a, written after the prefix was unset, is broken after its
\* whitespace rune
C27_Witness ==
    /\ pc = "returned"
    /\ callArgs.fn = "SetLinePrefix"
    /\ callArgs.inputs = << <<"a", "a", "\n">>, <<"a", " ", "a">> >>
    /\ callArgs.linePrefix = <<"P">>
    /\ callArgs.nextPrefix = <<>>
    /\ callArgs.width = 2
    /\ returned.w.data = <<"P", "a", "a", "\n", "a", " ", "\n", "a">>

\* C28: the buffer after the Write calls is the buffer after one Write call
\* of the concatenation of their texts
C28_SplitIndependent ==
    (pc = "returned" /\ callArgs.fn = "Write" /\ ~returned.failed) =>
        returned.w.data
            = writeRunes([data |-> <<>>, width |-> callArgs.width,
                          remainingToNextNewLine |-> callArgs.width,
                          linePrefix |-> callArgs.linePrefix],
                         Flatten(callArgs.inputs), 0).data


-----------------------------------------------------------------------------
(* Usage and application of positional arguments *)

\* flagSet.printFlagsSingleLine on the registry of each command
UsageLineOf ==
    [c \in Commands |->
        printFlagsSingleLine(getMergedFlagDefs(c), Len(Registry[c].positionalsTargets))]

\* The text holds [ARGS...] from position i on or later
RECURSIVE HoldsArgsItem(_, _)
HoldsArgsItem(text, i) ==
    IF i + Len(ArgsItem) - 1 > Len(text) THEN FALSE
    ELSE IF SubSeq(text, i, i + Len(ArgsItem) - 1) = ArgsItem THEN TRUE
    ELSE HoldsArgsItem(text, i + 1)

SomeTargetAssigned == \E t \in DOMAIN posTargets : posTargets[t].assigned

\* C30: the one-line usage of a command holds [ARGS...] exactly when a
\* successful apply on that command assigns the positional arguments to at
\* least one target
C30_UsageAgreesWithApply ==
    (pc = "applied" /\ applyErr = NoErr /\ ~UsageLineOf[cmd].failed) =>
        (HoldsArgsItem(UsageLineOf[cmd].b, 1) <=> SomeTargetAssigned)


-----------------------------------------------------------------------------
(* Order of the merged flags *)

NamesAscending(mfds) ==
    \A i, j \in DOMAIN mfds : i < j => StrCompare(mfds[i].Name, mfds[j].Name) < 0

\* No descriptor is less than one that stands before it
FlagDefsOrdered(fds) ==
    \A i, j \in DOMAIN fds : i < j => ~isLessThan(fds[j], fds[i])

\* The identity order of n map entries
FirstSeenOrder(n) == [i \in 1..n |-> i]

\* C24: getMergedFlagDefs returns merged flags of strictly ascending, hence
\* pairwise distinct, names, the descriptors of each ordered by isLessThan, and
\* the same merged flags whatever order the range over the map takes
C24_MergedOrder ==
    (pc = "returned" /\ callArgs.fn = "getMergedFlagDefs" /\ ~returned.failed) =>
        /\ NamesAscending(returned.flags)
        /\ \A n \in DOMAIN returned.flags : FlagDefsOrdered(returned.flags[n].flagDefs)
        /\ returned.flags
            = mergedInOrder(foldFlagDefs(<<>>, callArgs.flags),
                            FirstSeenOrder(Len(returned.flags))).flags

\* Descriptors b, a, a visited in this order, the second a less than the
\* first, and the map ranged over with b last
C24_Witness ==
    /\ pc = "returned"
    /\ callArgs.fn = "getMergedFlagDefs"
    /\ ~returned.failed
    /\ Len(callArgs.flags) = 3
    /\ callArgs.flags[1].Name = <<"b">>
    /\ callArgs.flags[2].Name = <<"a">>
    /\ callArgs.flags[3].Name = <<"a">>
    /\ isLessThan(callArgs.flags[3], callArgs.flags[2])
    /\ returned.order = <<2, 1>>
    /\ Len(returned.flags) = 2
    /\ returned.flags[1].flagDefs = << callArgs.flags[3], callArgs.flags[2] >>


-----------------------------------------------------------------------------
(* Integer targets *)

\* The text is an optional minus sign and digits
DenotesInteger(s) ==
    IF s # <<>> /\ Head(s) = "-" THEN IsDigits(Tail(s)) ELSE IsDigits(s)

IntegerOf(s) ==
    IF Head(s) = "-" THEN 0 - DigitsValue(Tail(s), 0) ELSE DigitsValue(s, 0)

\* The least and the greatest number a field of the kind holds
MinOf(kind) == IF kind \in SignedKinds THEN 0 - Pow2(BitsOf[kind] - 1) ELSE 0

MaxOf(kind) ==
    IF kind \in SignedKinds THEN Pow2(BitsOf[kind] - 1) - 1 ELSE Pow2(BitsOf[kind]) - 1

OutOfRange(kind, s) ==
    DenotesInteger(s) /\ (IntegerOf(s) < MinOf(kind) \/ IntegerOf(s) > MaxOf(kind))

\* C21: setValue on an integer target of w bits, given the text of an integer
\* that w bits cannot hold, returns ErrInvalidValue with the text and the
\* flag name and leaves the field as it was
C21_OutOfRangeRejected ==
    (pc = "returned" /\ callArgs.fn = "setValue" /\ OutOfRange(callArgs.kind, callArgs.sv)) =>
        /\ returned.err = Err("ErrInvalidValue", <<"n">>, callArgs.sv)
        /\ returned.fields["t"] = 0


-----------------------------------------------------------------------------
(* Positional-argument targets of one registry *)

IsArgsField(fld) == fld.tags.args = Some(FormatBool(TRUE))

\* The fields marked args:"true" in declaration order, those of a nested
\* struct at the place of the struct
RECURSIVE ArgsFieldIds(_)
ArgsFieldIds(s) ==
    IF s = <<>> THEN <<>>
    ELSE (IF Head(s).kind = "struct" THEN ArgsFieldIds(Head(s).init)
          ELSE IF IsArgsField(Head(s)) THEN << Head(s).id >>
          ELSE <<>>) \o ArgsFieldIds(Tail(s))

IsNewFlagSetCall == pc = "returned" /\ callArgs.fn = "newFlagSet"

NoFlagFields ==
    \A i \in DOMAIN callArgs.config :
        callArgs.config[i].kind = "struct" \/ IsArgsField(callArgs.config[i])

\* C22 as stated: newFlagSet fails when its configuration objects hold more
\* than one field marked args:"true", and a registry it returns has at most
\* one positional-argument target
C22_AtMostOneTarget ==
    IsNewFlagSetCall =>
        /\ Len(ArgsFieldIds(WithIds(callArgs.config))) > 1 => returned.failed
        /\ ~returned.failed => Len(returned.positionalsTargets) <= 1

\* C22 amended: the number of fields marked args:"true" never makes newFlagSet
\* fail, and a registry it returns has every such field as a positional
\* target, in declaration order
C22_EveryArgsFieldIsTarget ==
    IsNewFlagSetCall =>
        /\ NoFlagFields => ~returned.failed
        /\ ~returned.failed => returned.positionalsTargets = ArgsFieldIds(WithIds(callArgs.config))

\* A struct of a nested struct with an args field, a flag and an args field
C22_Witness ==
    /\ IsNewFlagSetCall
    /\ ~returned.failed
    /\ Len(callArgs.config) = 3
    /\ callArgs.config[1].kind = "struct"
    /\ callArgs.config[2] = FieldX
    /\ returned.positionalsTargets = << <<1, 1>>, <<3, 0>> >>


-----------------------------------------------------------------------------
(* Redeclared names in one registry *)

\* The indexes of the fields of the configuration struct that declare flags
FlagFieldsOf(config) ==
    { i \in DOMAIN config : config[i].kind # "struct" /\ ~IsArgsField(config[i]) }

\* The descriptor a flag field gives when it is the only field
FlagDefOfField(fld) == newFlagSet(<< << fld >> >>).flags[1]

FlagDefAt(i) == FlagDefOfField(WithIds(callArgs.config)[i])

\* Pairs of flag fields that declare one name, the first before the second
Redeclarations ==
    { p \in FlagFieldsOf(callArgs.config) \X FlagFieldsOf(callArgs.config) :
        p[1] < p[2] /\ FlagDefAt(p[1]).Name = FlagDefAt(p[2]).Name }

SameAttributes(a, b) ==
    /\ a.EnvVarName = b.EnvVarName
    /\ a.HasValue = b.HasValue
    /\ a.ValueName = b.ValueName
    /\ a.Description = b.Description
    /\ a.Required = b.Required
    /\ a.DefaultValue = b.DefaultValue
    /\ a.Inherited = b.Inherited

\* Attributes that an unset tag leaves open agree when either is unset
AgreeingAttributes(a, b) ==
    /\ ~SetAndDiffer(a.EnvVarName, b.EnvVarName)
    /\ a.HasValue = b.HasValue
    /\ ~SetAndDiffer(a.ValueName, b.ValueName)
    /\ ~SetAndDiffer(a.Description, b.Description)
    /\ ~SetAndDiffer(a.Required, b.Required)
    /\ a.DefaultValue = b.DefaultValue
    /\ a.Inherited = b.Inherited

\* The fields that declare the name, in declaration order
RECURSIVE FieldsNamed(_, _)
FieldsNamed(name, i) ==
    IF i > Len(callArgs.config) THEN <<>>
    ELSE (IF i \in FlagFieldsOf(callArgs.config) /\ FlagDefAt(i).Name = name
          THEN << <<i, 0>> >> ELSE <<>>) \o FieldsNamed(name, i + 1)

\* No two descriptors share a name, and each is bound to the fields that
\* declare its name
OneDescriptorPerName ==
    /\ \A m, n \in DOMAIN returned.flags :
            returned.flags[m].Name = returned.flags[n].Name => m = n
    /\ \A n \in DOMAIN returned.flags :
            returned.flags[n].Targets = FieldsNamed(returned.flags[n].Name, 1)

\* C23 as stated: a registry newFlagSet returns has one descriptor for each
\* name, bound to every field that declares the name, and newFlagSet fails
\* exactly when a field redeclares a name with an environment variable,
\* has-value, value-name, description, required status, default value or
\* inherited status that is not the one declared before
C23_ExactMatch ==
    IsNewFlagSetCall =>
        /\ ~returned.failed
            <=> \A p \in Redeclarations : SameAttributes(FlagDefAt(p[1]), FlagDefAt(p[2]))
        /\ ~returned.failed => OneDescriptorPerName

\* C23 amended: the same, where an environment variable, value-name,
\* description or required status that one of the two fields leaves unset
\* agrees with any value of the other
C23_AgreeingMatch ==
    IsNewFlagSetCall =>
        /\ ~returned.failed
            <=> \A p \in Redeclarations : AgreeingAttributes(FlagDefAt(p[1]), FlagDefAt(p[2]))
        /\ ~returned.failed => OneDescriptorPerName

\* x declared without an environment variable, then y, then x with the
\* environment variable E: one descriptor of x with E, bound to both fields
C23_Witness ==
    /\ IsNewFlagSetCall
    /\ ~returned.failed
    /\ Len(callArgs.config) = 3
    /\ callArgs.config[1] = FieldX
    /\ callArgs.config[3] = [FieldX EXCEPT !.tags.env = Some(<<"e">>)]
    /\ Len(returned.flags) = 2
    /\ returned.flags[1].Name = <<"x">>
    /\ returned.flags[1].EnvVarName = Some(<<"E">>)
    /\ returned.flags[1].Targets = << <<1, 0>>, <<3, 0>> >>
    /\ returned.flags[2].Name = <<"y">>

====
